---------------------------- MODULE Spec2Model ----------------------------
(***************************************************************************)
(* Model of the Math Academy activity-log analyzer:                        *)
(*   - the line scan of CourseProgressParser.parse_course_data, primary    *)
(*     (course_parser.py) and backup (course_parser_backup.py);            *)
(*   - the exporters, the ChartGenerator entry points and the CLI          *)
(*     commands export, generate_all and stats (main.py).                  *)
(*                                                                         *)
(* A line of the extracted PDF text is a sequence of tokens separated by   *)
(* whitespace.  A token is a string; "" stands for surplus whitespace at   *)
(* an end of the line.  A date header, and each boilerplate phrase, is one *)
(* token: the regular expressions of the parser can match inside none of   *)
(* them except as a whole.                                                 *)
(***************************************************************************)
EXTENDS Integers, Sequences, FiniteSets, TLC

(***************************************************************************)
(* Bounds of the model.                                                    *)
(***************************************************************************)
\* the line scan is explored until it has emitted this many records
MaxRecords == 2

(***************************************************************************)
(* The token alphabet.                                                     *)
(***************************************************************************)
WordTokens == {"math"}

\* the alternation (Quiz|Lesson|Review|Multistep) of regular_task_pattern
TaskKeywords == {"Quiz", "Lesson", "Review", "Multistep"}

\* tokens of the form \d+/\d+
FractionTokens == {"18/15"}

\* tokens of the form \d+/
PlacementFractionTokens == {"35/", "07/"}

\* tokens matching the whole of date_pattern
DateHeaderTokens == {"Monday, March 4th, 2024 (10 XP)", "Tuesday, Mar 5th, 2024 (20 XP)"}

ActivityLog == "Activity Log"
ColumnHeader == "COURSE TASK DESCRIPTION XP EARNED"
InfoTokens == {"Student ID:", "Start Date:", "End Date:"}
BoilerplateTokens == {ActivityLog, ColumnHeader} \cup InfoTokens

\* the groups (\d+) of the patterns, as digit sequences
Digits(tok) ==
  CASE tok = "18/15" -> [earned |-> <<1, 8>>, possible |-> <<1, 5>>]
    [] tok = "35/"   -> [earned |-> <<3, 5>>, possible |-> <<>>]
    [] tok = "07/"   -> [earned |-> <<0, 7>>, possible |-> <<>>]

\* the groups of date_pattern in a date-header token
DateGroups(tok) ==
  CASE tok = "Monday, March 4th, 2024 (10 XP)" ->
         [weekday |-> "Monday", month |-> "March", day |-> <<4>>,
          year |-> <<2, 0, 2, 4>>, total_xp |-> <<1, 0>>]
    [] tok = "Tuesday, Mar 5th, 2024 (20 XP)" ->
         [weekday |-> "Tuesday", month |-> "Mar", day |-> <<5>>,
          year |-> <<2, 0, 2, 4>>, total_xp |-> <<2, 0>>]

\* Python int() of a digit string
RECURSIVE int(_)
int(ds) == IF ds = <<>> THEN 0 ELSE 10 * int(SubSeq(ds, 1, Len(ds) - 1)) + ds[Len(ds)]

\* Python str() of a non-negative integer, as a digit sequence
RECURSIVE str(_)
str(n) == IF n < 10 THEN <<n>> ELSE Append(str(n \div 10), n % 10)

\* Python str.title() on a token
title(tok) ==
  CASE tok = "math" -> "Math"
    [] tok = "XP" -> "Xp"
    [] tok = "Student ID:" -> "Student Id:"
    [] tok = ColumnHeader -> "Course Task Description Xp Earned"
    [] OTHER -> tok

\* Python str.strip() on a line: surplus whitespace at both ends goes
RECURSIVE strip(_)
strip(l) ==
  IF l = <<>> THEN l
  ELSE IF Head(l) = "" THEN strip(Tail(l))
  ELSE IF l[Len(l)] = "" THEN strip(SubSeq(l, 1, Len(l) - 1))
  ELSE l

Min(S) == CHOOSE x \in S : \A y \in S : x <= y

(***************************************************************************)
(* The absent values of Python.                                            *)
(***************************************************************************)
None == <<>>
NoTotal == -1


(***************************************************************************)
(* course_parser.py: the patterns of parse_course_data.  re.search finds   *)
(* the leftmost match; a lazy group (.+?) takes the shortest text that     *)
(* lets the rest of the pattern match.                                     *)
(***************************************************************************)
\* re.search(date_pattern, line): the index of the leftmost date header, 0 if none
date_match(line) ==
  LET hits == {i \in 1..Len(line) : line[i] \in DateHeaderTokens}
  IN  IF hits = {} THEN 0 ELSE Min(hits)

\* re.search(regular_task_pattern, line): the groups, or None
regular_match(line) ==
  LET n == Len(line)
      hits == {kf \in (2..n) \X (4..(n - 1)) :
                 /\ kf[2] >= kf[1] + 2
                 /\ line[kf[1]] \in TaskKeywords
                 /\ line[kf[2]] \in FractionTokens
                 /\ line[kf[2] + 1] = "XP"}
  IN  IF hits = {} THEN None
      ELSE LET k == Min({kf[1] : kf \in hits})
               f == Min({kf[2] : kf \in {h \in hits : h[1] = k}})
           IN  [course_full |-> SubSeq(line, 1, k - 1),
                task_type   |-> line[k],
                description |-> SubSeq(line, k + 1, f - 1),
                earned      |-> Digits(line[f]).earned,
                possible    |-> Digits(line[f]).possible]

\* re.search(placement_task_pattern, line): the groups, or None
placement_match(line) ==
  LET n == Len(line)
      hits == {k \in 2..(n - 2) :
                 /\ line[k] = "Placement"
                 /\ line[k + 1] \in PlacementFractionTokens
                 /\ line[k + 2] = "XP"}
  IN  IF hits = {} THEN None
      ELSE LET k == Min(hits)
           IN  [course_full |-> SubSeq(line, 1, k - 1),
                task_type   |-> line[k],
                earned      |-> Digits(line[k + 1]).earned]

\* the month number for a month name, 1 when the name is not in month_map
_month_to_num(month) ==
  CASE month \in {"January", "Jan"} -> 1
    [] month \in {"February", "Feb"} -> 2
    [] month \in {"March", "Mar"} -> 3
    [] month \in {"April", "Apr"} -> 4
    [] month = "May" -> 5
    [] month \in {"June", "Jun"} -> 6
    [] month \in {"July", "Jul"} -> 7
    [] month \in {"August", "Aug"} -> 8
    [] month \in {"September", "Sep"} -> 9
    [] month \in {"October", "Oct"} -> 10
    [] month \in {"November", "Nov"} -> 11
    [] month \in {"December", "Dec"} -> 12
    [] OTHER -> 1

\* full_name.strip().title(): the course text is stripped already
_extract_course_name(full_name) ==
  [i \in 1..Len(full_name) |-> title(full_name[i])]

\* str.capitalize() of the matched keyword: each keyword is capitalized already
capitalize(task_type) == task_type

\* the date "YYYY-MM-DD" of a date header, as <<year, month, day>>
HeaderDate(tok) ==
  LET g == DateGroups(tok)
  IN  <<int(g.year), _month_to_num(g.month), int(g.day)>>

HeaderTotal(tok) == int(DateGroups(tok).total_xp)

\* the skip test of lines 54-58
IsBoilerplate(line) ==
  \/ Head(line) = ActivityLog
  \/ \E i \in 1..Len(line) : line[i] \in InfoTokens
  \/ line = <<ColumnHeader>>

\* the dictionary appended at lines 72-81
RegularRecord(m, date, total) ==
  [Date           |-> date,
   Course         |-> _extract_course_name(m.course_full),
   Task           |-> capitalize(m.task_type),
   Description    |-> m.description,
   XP_Earned      |-> int(m.earned),
   XP_Possible    |-> int(m.possible),
   XP_Detail      |-> [earned |-> m.earned, possible |-> m.possible],
   Daily_Total_XP |-> total]

\* PlacementRecord with no possible XP, as the line states none
PlacementRecord_no_possible(m, date, total) ==
  [Date           |-> date,
   Course         |-> _extract_course_name(m.course_full),
   Task           |-> "Placement",
   Description    |-> <<"Placement Test">>,
   XP_Earned      |-> int(m.earned),
   XP_Possible    |-> 0,
   XP_Detail      |-> [earned |-> str(int(m.earned)), possible |-> <<>>],
   Daily_Total_XP |-> total]

\* the dictionary appended at lines 96-105
PlacementRecord(m, date, total) ==
  [Date           |-> date,
   Course         |-> _extract_course_name(m.course_full),
   Task           |-> "Placement",
   Description    |-> <<"Placement Test">>,
   XP_Earned      |-> int(m.earned),
   XP_Possible    |-> int(m.earned),
   XP_Detail      |-> [earned |-> str(int(m.earned)), possible |-> <<>>],
   Daily_Total_XP |-> total]

\* DateActive without the test of current_date
DateActive_unguarded(date) == TRUE

\* whether a task line may emit: "and current_date"
DateActive(date) == date # None

\* parse_line with a date header that sets the date and keeps the old total
parse_line_stale_total(st, raw) ==
  LET line == strip(raw)
  IN  IF line = <<>> THEN st
      ELSE IF date_match(line) # 0
        THEN [st EXCEPT !.current_date = HeaderDate(line[date_match(line)])]
      ELSE IF IsBoilerplate(line) THEN st
      ELSE IF regular_match(line) # None /\ DateActive(st.current_date)
        THEN [st EXCEPT !.course_data =
                Append(@, RegularRecord(regular_match(line), st.current_date, st.daily_total))]
      ELSE IF placement_match(line) # None /\ DateActive(st.current_date)
        THEN [st EXCEPT !.course_data =
                Append(@, PlacementRecord(placement_match(line), st.current_date, st.daily_total))]
      ELSE st

\* the body of the loop over the lines (lines 39-105); st holds the locals
\* current_date, daily_total and course_data
parse_line(st, raw) ==
  LET line == strip(raw)
  IN  IF line = <<>> THEN st
      ELSE IF date_match(line) # 0
        THEN [st EXCEPT !.current_date = HeaderDate(line[date_match(line)]),
                        !.daily_total  = HeaderTotal(line[date_match(line)])]
      ELSE IF IsBoilerplate(line) THEN st
      ELSE IF regular_match(line) # None /\ DateActive(st.current_date)
        THEN [st EXCEPT !.course_data =
                Append(@, RegularRecord(regular_match(line), st.current_date, st.daily_total))]
      ELSE IF placement_match(line) # None /\ DateActive(st.current_date)
        THEN [st EXCEPT !.course_data =
                Append(@, PlacementRecord(placement_match(line), st.current_date, st.daily_total))]
      ELSE st

\* the locals before the loop (lines 28-30)
ParseStart == [current_date |-> None, daily_total |-> NoTotal, course_data |-> <<>>]

\* parse_course_data on a whole text, a sequence of lines
RECURSIVE ScanLines(_, _)
ScanLines(st, lines) ==
  IF lines = <<>> THEN st ELSE ScanLines(parse_line(st, Head(lines)), Tail(lines))

parse_course_data(lines) == ScanLines(ParseStart, lines).course_data

(***************************************************************************)
(* course_parser_backup.py: the same patterns and loop, as that file       *)
(* states them.                                                            *)
(***************************************************************************)
\* re.search(date_pattern, line): the index of the leftmost date header, 0 if none
date_match_backup(line) ==
  LET hits == {i \in 1..Len(line) : line[i] \in DateHeaderTokens}
  IN  IF hits = {} THEN 0 ELSE Min(hits)

\* re.search(regular_task_pattern, line): the groups, or None
regular_match_backup(line) ==
  LET n == Len(line)
      hits == {kf \in (2..n) \X (4..(n - 1)) :
                 /\ kf[2] >= kf[1] + 2
                 /\ line[kf[1]] \in TaskKeywords
                 /\ line[kf[2]] \in FractionTokens
                 /\ line[kf[2] + 1] = "XP"}
  IN  IF hits = {} THEN None
      ELSE LET k == Min({kf[1] : kf \in hits})
               f == Min({kf[2] : kf \in {h \in hits : h[1] = k}})
           IN  [course_full |-> SubSeq(line, 1, k - 1),
                task_type   |-> line[k],
                description |-> SubSeq(line, k + 1, f - 1),
                earned      |-> Digits(line[f]).earned,
                possible    |-> Digits(line[f]).possible]

\* re.search(placement_task_pattern, line): the groups, or None
placement_match_backup(line) ==
  LET n == Len(line)
      hits == {k \in 2..(n - 2) :
                 /\ line[k] = "Placement"
                 /\ line[k + 1] \in PlacementFractionTokens
                 /\ line[k + 2] = "XP"}
  IN  IF hits = {} THEN None
      ELSE LET k == Min(hits)
           IN  [course_full |-> SubSeq(line, 1, k - 1),
                task_type   |-> line[k],
                earned      |-> Digits(line[k + 1]).earned]

\* the month number for a month name, 1 when the name is not in month_map
_month_to_num_backup(month) ==
  CASE month \in {"January", "Jan"} -> 1
    [] month \in {"February", "Feb"} -> 2
    [] month \in {"March", "Mar"} -> 3
    [] month \in {"April", "Apr"} -> 4
    [] month = "May" -> 5
    [] month \in {"June", "Jun"} -> 6
    [] month \in {"July", "Jul"} -> 7
    [] month \in {"August", "Aug"} -> 8
    [] month \in {"September", "Sep"} -> 9
    [] month \in {"October", "Oct"} -> 10
    [] month \in {"November", "Nov"} -> 11
    [] month \in {"December", "Dec"} -> 12
    [] OTHER -> 1

\* full_name.strip().title(): the course text is stripped already
_extract_course_name_backup(full_name) ==
  [i \in 1..Len(full_name) |-> title(full_name[i])]

\* str.capitalize() of the matched keyword: each keyword is capitalized already
capitalize_backup(task_type) == task_type

\* the date "YYYY-MM-DD" of a date header, as <<year, month, day>>
HeaderDate_backup(tok) ==
  LET g == DateGroups(tok)
  IN  <<int(g.year), _month_to_num_backup(g.month), int(g.day)>>

HeaderTotal_backup(tok) == int(DateGroups(tok).total_xp)

\* the skip test of lines 52-56
IsBoilerplate_backup(line) ==
  \/ Head(line) = ActivityLog
  \/ \E i \in 1..Len(line) : line[i] \in InfoTokens
  \/ line = <<ColumnHeader>>

\* the dictionary appended at lines 70-79
RegularRecord_backup(m, date, total) ==
  [Date           |-> date,
   Course         |-> _extract_course_name_backup(m.course_full),
   Task           |-> capitalize_backup(m.task_type),
   Description    |-> m.description,
   XP_Earned      |-> int(m.earned),
   XP_Possible    |-> int(m.possible),
   XP_Detail      |-> [earned |-> m.earned, possible |-> m.possible],
   Daily_Total_XP |-> total]

\* the dictionary appended at lines 94-103
PlacementRecord_backup(m, date, total) ==
  [Date           |-> date,
   Course         |-> _extract_course_name_backup(m.course_full),
   Task           |-> "Placement",
   Description    |-> <<"Placement Test">>,
   XP_Earned      |-> int(m.earned),
   XP_Possible    |-> int(m.earned),
   XP_Detail      |-> [earned |-> str(int(m.earned)), possible |-> <<>>],
   Daily_Total_XP |-> total]

\* whether a task line may emit: "and current_date"
DateActive_backup(date) == date # None

\* parse_line_backup without the placement branch
parse_line_backup_no_placement(st, raw) ==
  LET line == strip(raw)
  IN  IF line = <<>> THEN st
      ELSE IF date_match_backup(line) # 0
        THEN [st EXCEPT !.current_date = HeaderDate_backup(line[date_match_backup(line)]),
                        !.daily_total  = HeaderTotal_backup(line[date_match_backup(line)])]
      ELSE IF IsBoilerplate_backup(line) THEN st
      ELSE IF regular_match_backup(line) # None /\ DateActive_backup(st.current_date)
        THEN [st EXCEPT !.course_data =
                Append(@, RegularRecord_backup(regular_match_backup(line), st.current_date, st.daily_total))]
      ELSE st

\* the body of the loop over the lines (lines 37-103); st holds the locals
\* current_date, daily_total and course_data
parse_line_backup(st, raw) ==
  LET line == strip(raw)
  IN  IF line = <<>> THEN st
      ELSE IF date_match_backup(line) # 0
        THEN [st EXCEPT !.current_date = HeaderDate_backup(line[date_match_backup(line)]),
                        !.daily_total  = HeaderTotal_backup(line[date_match_backup(line)])]
      ELSE IF IsBoilerplate_backup(line) THEN st
      ELSE IF regular_match_backup(line) # None /\ DateActive_backup(st.current_date)
        THEN [st EXCEPT !.course_data =
                Append(@, RegularRecord_backup(regular_match_backup(line), st.current_date, st.daily_total))]
      ELSE IF placement_match_backup(line) # None /\ DateActive_backup(st.current_date)
        THEN [st EXCEPT !.course_data =
                Append(@, PlacementRecord_backup(placement_match_backup(line), st.current_date, st.daily_total))]
      ELSE st

RECURSIVE ScanLines_backup(_, _)
ScanLines_backup(st, lines) ==
  IF lines = <<>> THEN st
  ELSE ScanLines_backup(parse_line_backup(st, Head(lines)), Tail(lines))

parse_course_data_backup(lines) == ScanLines_backup(ParseStart, lines).course_data

(***************************************************************************)
(* The lines a text is made of: a core (nothing, a date header, the tail   *)
(* of a regular task, the tail of a placement task) between one optional   *)
(* token before it and one after it.                                       *)
(***************************************************************************)
LineBefore == {<<>>, <<"">>, <<"Quiz">>} \cup {<<t>> : t \in WordTokens \cup BoilerplateTokens}

LineCore ==
  {<<>>}
  \cup {<<d>> : d \in DateHeaderTokens}
  \cup {<<"Quiz", "math", f, "XP">> : f \in FractionTokens}
  \cup {<<"Placement", g, "XP">> : g \in PlacementFractionTokens}

LineAfter == {<<>>, <<"">>, <<ActivityLog>>, <<"Student ID:">>}

Lines == {b \o c \o a : <<b, c, a>> \in LineBefore \X LineCore \X LineAfter}

(***************************************************************************)
(* The text of a PDF as the export and chart layer sees it: day blocks,    *)
(* each a date header followed by the task lines of that day.              *)
(***************************************************************************)
MaxBlocks == 2

RegularLine == <<"math", "Quiz", "math", "18/15", "XP">>

DayBlocks ==
  {<<<<h>>>> \o tasks : h \in DateHeaderTokens, tasks \in {<<>>, <<RegularLine>>}}

RECURSIVE TextsOf(_)
TextsOf(n) ==
  IF n = 0 THEN {<<>>}
  ELSE {<<>>} \cup {b \o t : b \in DayBlocks, t \in TextsOf(n - 1)}

Texts == TextsOf(MaxBlocks)

(***************************************************************************)
(* Paths.  A path is its directory, its stem and its suffix.               *)
(***************************************************************************)
Path(dir, stem, ext) == [dir |-> dir, stem |-> stem, ext |-> ext]

with_suffix(p, ext) == [p EXCEPT !.ext = ext]

\* f"{output_path}.html" / f"{output_path}.png" in the chart writers
ChartFile(output_path, interactive) ==
  with_suffix(output_path, IF interactive THEN "html" ELSE "png")

OutputPath == Path("out", "data", "xlsx")
ExcelPath == Path("out", "data", "xlsx")
JsonPath == Path("out", "data", "json")
TempJsonPath == Path("out", "data_temp", "json")
SnapshotPath == Path("in", "progress", "json")

JsonPaths == {JsonPath, TempJsonPath}

(***************************************************************************)
(* CourseProgressParser: the JSON snapshot and the exporters.  An exporter *)
(* acts on w, the files of the output directory, the contents of its JSON  *)
(* files and the standard output; its data argument is None or <<list>>.   *)
(***************************************************************************)
RECURSIVE SumSeq(_)
SumSeq(s) == IF s = <<>> THEN 0 ELSE Head(s) + SumSeq(Tail(s))

\* the empty dict
NoStatistics == <<>>

\* dict[key] = value
Put(dict, key, value) ==
  [k \in DOMAIN dict \cup {key} |-> IF k = key THEN value ELSE dict[k]]

\* the body of the course loop
CountCourse(courses, item) ==
  LET course == item.Course
      entry == IF course \in DOMAIN courses THEN courses[course]
               ELSE [count |-> 0, xp |-> 0, tasks_by_type |-> <<>>]
      task_type == item.Task
      tasks == IF task_type \in DOMAIN entry.tasks_by_type
               THEN entry.tasks_by_type
               ELSE Put(entry.tasks_by_type, task_type, 0)
  IN  Put(courses, course,
          [count |-> entry.count + 1,
           xp |-> entry.xp + item.XP_Earned,
           tasks_by_type |-> Put(tasks, task_type, tasks[task_type] + 1)])

\* the body of the task type loop
CountTaskType(task_types, item) ==
  LET task_type == item.Task
      entry == IF task_type \in DOMAIN task_types THEN task_types[task_type]
               ELSE [count |-> 0, xp |-> 0]
  IN  Put(task_types, task_type,
          [count |-> entry.count + 1, xp |-> entry.xp + item.XP_Earned])

\* the courses of a day are kept in a list
CountDay_listing(daily_stats, item) ==
  LET date == item.Date
      entry == IF date \in DOMAIN daily_stats THEN daily_stats[date]
               ELSE [total_xp |-> 0, task_count |-> 0, courses |-> <<>>]
  IN  Put(daily_stats, date,
          [total_xp |-> entry.total_xp + item.XP_Earned,
           task_count |-> entry.task_count + 1,
           courses |-> Append(entry.courses, item.Course)])

\* the body of the day loop; list(set) at the end lists each course of the
\* set once, in an order of its own: here the order of their first records
CountDay(daily_stats, item) ==
  LET date == item.Date
      entry == IF date \in DOMAIN daily_stats THEN daily_stats[date]
               ELSE [total_xp |-> 0, task_count |-> 0, courses |-> <<>>]
      listed == {entry.courses[k] : k \in 1..Len(entry.courses)}
  IN  Put(daily_stats, date,
          [total_xp |-> entry.total_xp + item.XP_Earned,
           task_count |-> entry.task_count + 1,
           courses |-> IF item.Course \in listed THEN entry.courses
                       ELSE Append(entry.courses, item.Course)])

\* for item in data: the three loops
RECURSIVE CourseLoop(_, _)
CourseLoop(data, courses) ==
  IF data = <<>> THEN courses
  ELSE CourseLoop(Tail(data), CountCourse(courses, Head(data)))

RECURSIVE TaskLoop(_, _)
TaskLoop(data, task_types) ==
  IF data = <<>> THEN task_types
  ELSE TaskLoop(Tail(data), CountTaskType(task_types, Head(data)))

RECURSIVE DailyLoop(_, _)
DailyLoop(data, daily_stats) ==
  IF data = <<>> THEN daily_stats
  ELSE DailyLoop(Tail(data), CountDay(daily_stats, Head(data)))

\* total_xp sums the XP Possible column
_calculate_statistics_possible(data) ==
  IF data = <<>> THEN NoStatistics
  ELSE
  [total_xp |-> SumSeq([i \in 1..Len(data) |-> data[i].XP_Possible]),
   total_possible |-> SumSeq([i \in 1..Len(data) |-> data[i].XP_Possible]),
   unique_courses |-> Cardinality(DOMAIN CourseLoop(data, <<>>)),
   unique_task_types |->
     Cardinality(DOMAIN TaskLoop(data, <<>>)),
   course_breakdown |-> CourseLoop(data, <<>>),
   task_type_breakdown |-> TaskLoop(data, <<>>),
   daily_breakdown |-> DailyLoop(data, <<>>)]

\* completion_rate, average_xp_per_task and date_range are left out
_calculate_statistics(data) ==
  IF data = <<>> THEN NoStatistics
  ELSE
  [total_xp |-> SumSeq([i \in 1..Len(data) |-> data[i].XP_Earned]),
   total_possible |-> SumSeq([i \in 1..Len(data) |-> data[i].XP_Possible]),
   unique_courses |-> Cardinality(DOMAIN CourseLoop(data, <<>>)),
   unique_task_types |->
     Cardinality(DOMAIN TaskLoop(data, <<>>)),
   course_breakdown |-> CourseLoop(data, <<>>),
   task_type_breakdown |-> TaskLoop(data, <<>>),
   daily_breakdown |-> DailyLoop(data, <<>>)]

\* the document json.dump writes: metadata, statistics, activities
JsonSnapshot(data) ==
  [has_activities |-> TRUE,
   total_records |-> Len(data),
   statistics |-> _calculate_statistics(data),
   activities |-> data]

\* a JSON document with an empty 'activities' list
EmptySnapshot == JsonSnapshot(<<>>)

\* a JSON document without the 'activities' key
AbsentSnapshot == [EmptySnapshot EXCEPT !.has_activities = FALSE]

print(w, line) == [w EXCEPT !.stdout = Append(@, line)]

_print_summary(w, data) ==
  IF data = <<>> THEN w ELSE print(w, "=== Summary ===")

\* the workbook is written from data, in the order given (the frame sorted
\* at line 122 is not the one written), then the report and the summary
SaveWorkbook(w, output_path, data) ==
  _print_summary(
    print(print([w EXCEPT !.files = @ \cup {output_path}],
                "Excel file saved to:"), "Total records:"), data)

export_to_excel_unguarded(self, w, output_path, data_arg) ==
  LET data == IF data_arg = None THEN parse_course_data(self) ELSE data_arg[1]
  IN  SaveWorkbook(w, output_path, data)

export_to_excel(self, w, output_path, data_arg) ==
  LET data == IF data_arg = None THEN parse_course_data(self) ELSE data_arg[1]
  IN  IF data = <<>> THEN print(w, "No course data found to export.")
      ELSE SaveWorkbook(w, output_path, data)

\* "activities" is data, in the order given
DumpJson(w, output_path, data) ==
  _print_summary(
    print(print([w EXCEPT !.files = @ \cup {output_path},
                          !.json_files[output_path] = JsonSnapshot(data)],
                "JSON file saved to:"), "Total records:"), data)

export_to_json(self, w, output_path, data_arg) ==
  LET data == IF data_arg = None THEN parse_course_data(self) ELSE data_arg[1]
  IN  IF data = <<>> THEN print(w, "No course data found to export.")
      ELSE DumpJson(w, output_path, data)

export_to_excel_and_json(self, w, excel_path, json_path, data_arg) ==
  LET data == IF data_arg = None THEN parse_course_data(self) ELSE data_arg[1]
  IN  IF data = <<>> THEN print(w, "No course data found to export.")
      ELSE print(export_to_json(self,
                   export_to_excel(self, w, excel_path, <<data>>),
                   json_path, <<data>>),
                 "Exported to both formats:")

(***************************************************************************)
(* ChartGenerator: the dataset loaded from a snapshot and what is computed *)
(* from it.  A calendar day is named by its proleptic Gregorian ordinal; a *)
(* mean is kept as the exact fraction num/den.                             *)
(***************************************************************************)
IsLeap(y) == (y % 4 = 0 /\ y % 100 # 0) \/ y % 400 = 0

DaysInMonth(y, m) ==
  CASE m \in {4, 6, 9, 11} -> 30
    [] m = 2 -> IF IsLeap(y) THEN 29 ELSE 28
    [] OTHER -> 31

RECURSIVE DaysBeforeMonth(_, _)
DaysBeforeMonth(y, m) ==
  IF m = 1 THEN 0 ELSE DaysBeforeMonth(y, m - 1) + DaysInMonth(y, m - 1)

toordinal(d) ==
  LET y == d[1] - 1
  IN  y * 365 + (y \div 4) - (y \div 100) + (y \div 400)
        + DaysBeforeMonth(d[1], d[2]) + d[3]

\* Date strings are 'YYYY-MM-DD'; their order is the order of the calendar
DateBefore(a, b) == toordinal(a) < toordinal(b)

\* df.sort_values('date'): rows in date order, equal dates in the order read
RECURSIVE InsertByDate(_, _)
InsertByDate(row, sorted) ==
  IF sorted = <<>> THEN <<row>>
  ELSE IF DateBefore(row.date, Head(sorted).date)
       THEN <<row>> \o sorted
       ELSE <<Head(sorted)>> \o InsertByDate(row, Tail(sorted))

RECURSIVE sort_values(_)
sort_values(rows) ==
  IF rows = <<>> THEN <<>>
  ELSE InsertByDate(rows[Len(rows)], sort_values(SubSeq(rows, 1, Len(rows) - 1)))

\* the rows stay in the order of the snapshot
_process_data_unsorted(data) ==
  LET activities == IF data.has_activities THEN data.activities ELSE <<>>
  IN  [i \in 1..Len(activities) |->
         [Date |-> activities[i].Date,
          Course |-> activities[i].Course,
          Task |-> activities[i].Task,
          XP_Possible |-> activities[i].XP_Possible,
          date |-> activities[i].Date,
          xp_numeric |-> activities[i].XP_Earned]]

_process_data(data) ==
  LET activities == IF data.has_activities THEN data.activities ELSE <<>>
  IN  IF activities = <<>> THEN <<>>
      ELSE sort_values([i \in 1..Len(activities) |->
             [Date |-> activities[i].Date,
              Course |-> activities[i].Course,
              Task |-> activities[i].Task,
              XP_Possible |-> activities[i].XP_Possible,
              date |-> activities[i].Date,
              xp_numeric |-> activities[i].XP_Earned]])

\* __init__: the path, the document read from it, the dataset
ChartGenerator(json_path, document) ==
  [json_path |-> json_path, data |-> document, df |-> _process_data(document)]

DayXP(df, day) ==
  SumSeq([i \in 1..Len(df) |->
            IF toordinal(df[i].date) = day THEN df[i].xp_numeric ELSE 0])

HasActivity(df, day) == \E i \in 1..Len(df) : toordinal(df[i].date) = day

FirstDay(df) == toordinal(df[1].date)
LastDay(df) == toordinal(df[Len(df)].date)

\* every calendar day from the first to the last, days without a row at 0
_calculate_daily_xp(df) ==
  IF df = <<>> THEN <<>>
  ELSE [k \in 1..(LastDay(df) - FirstDay(df) + 1) |->
          [date |-> FirstDay(df) + k - 1,
           xp_numeric |-> DayXP(df, FirstDay(df) + k - 1)]]

\* the days that have a row, in date order, with the running sum
_calculate_cumulative_xp(df) ==
  IF df = <<>> THEN <<>>
  ELSE LET days == SelectSeq([k \in 1..(LastDay(df) - FirstDay(df) + 1) |->
                                FirstDay(df) + k - 1],
                             LAMBDA day : HasActivity(df, day))
       IN  [i \in 1..Len(days) |->
              [date |-> days[i],
               xp_numeric |-> DayXP(df, days[i]),
               cumulative_xp |->
                 SumSeq([j \in 1..i |-> DayXP(df, days[j])])]]

Max(S) == CHOOSE x \in S : \A y \in S : y <= x

\* the date of the rows of a day, None for no day (0)
DateOf(df, day) ==
  IF day = 0 THEN None
  ELSE df[CHOOSE i \in 1..Len(df) : toordinal(df[i].date) = day].date

\* a later run of the same length replaces the earlier one
RECURSIVE LongestStreakScan_latest(_, _, _)
LongestStreakScan_latest(df, day, st) ==
  IF day > LastDay(df) THEN st
  ELSE IF HasActivity(df, day)
       THEN LET start == IF st.current_streak = 0 THEN day
                         ELSE st.current_streak_start
                cur == st.current_streak + 1
            IN  LongestStreakScan_latest(df, day + 1,
                  IF cur >= st.max_streak
                  THEN [current_streak |-> cur, current_streak_start |-> start,
                        max_streak |-> cur, max_streak_start |-> start,
                        max_streak_end |-> day]
                  ELSE [st EXCEPT !.current_streak = cur,
                                  !.current_streak_start = start])
       ELSE LongestStreakScan_latest(df, day + 1,
              [st EXCEPT !.current_streak = 0, !.current_streak_start = 0])

RECURSIVE LongestStreakScan(_, _, _)
LongestStreakScan(df, day, st) ==
  IF day > LastDay(df) THEN st
  ELSE IF HasActivity(df, day)
       THEN LET start == IF st.current_streak = 0 THEN day
                         ELSE st.current_streak_start
                cur == st.current_streak + 1
            IN  LongestStreakScan(df, day + 1,
                  IF cur > st.max_streak
                  THEN [current_streak |-> cur, current_streak_start |-> start,
                        max_streak |-> cur, max_streak_start |-> start,
                        max_streak_end |-> day]
                  ELSE [st EXCEPT !.current_streak = cur,
                                  !.current_streak_start = start])
       ELSE LongestStreakScan(df, day + 1,
              [st EXCEPT !.current_streak = 0, !.current_streak_start = 0])

_calculate_longest_streak(df) ==
  IF df = <<>> THEN [length |-> 0, start_date |-> None, end_date |-> None]
  ELSE LET st == LongestStreakScan(df, FirstDay(df),
                   [current_streak |-> 0, current_streak_start |-> 0,
                    max_streak |-> 0, max_streak_start |-> 0,
                    max_streak_end |-> 0])
       IN  [length |-> st.max_streak,
            start_date |-> DateOf(df, st.max_streak_start),
            end_date |-> DateOf(df, st.max_streak_end)]

\* a day without activity is passed over instead of ending the scan
RECURSIVE CurrentStreakScan_no_break(_, _, _)
CurrentStreakScan_no_break(df, day, st) ==
  IF day < FirstDay(df) THEN st
  ELSE CurrentStreakScan_no_break(df, day - 1,
         IF HasActivity(df, day)
         THEN [current_streak |-> st.current_streak + 1,
               current_streak_start |-> day]
         ELSE st)

RECURSIVE CurrentStreakScan(_, _, _)
CurrentStreakScan(df, day, st) ==
  IF day < FirstDay(df) \/ ~HasActivity(df, day) THEN st
  ELSE CurrentStreakScan(df, day - 1,
         [current_streak |-> st.current_streak + 1,
          current_streak_start |-> day])

_calculate_current_streak(df) ==
  IF df = <<>> THEN [length |-> 0, start_date |-> None, end_date |-> None]
  ELSE LET st == CurrentStreakScan(df, LastDay(df),
                   [current_streak |-> 0, current_streak_start |-> 0])
       IN  [length |-> st.current_streak,
            start_date |-> DateOf(df, st.current_streak_start),
            end_date |-> DateOf(df, LastDay(df))]

TrendWindow == 7

\* the earlier window is the first seven entries of the series
_calculate_recent_trend_head(daily_df) ==
  IF Len(daily_df) < 2 * TrendWindow
  THEN [change_percent |-> [num |-> 0, den |-> 1],
        direction |-> "insufficient_data"]
  ELSE LET n == Len(daily_df)
           recent == SumSeq([k \in 1..TrendWindow |->
                       daily_df[n - TrendWindow + k].xp_numeric])
           previous == SumSeq([k \in 1..TrendWindow |-> daily_df[k].xp_numeric])
           change == IF previous = 0
                     THEN [num |-> IF recent > 0 THEN 100 ELSE 0, den |-> 1]
                     ELSE [num |-> (recent - previous) * 100, den |-> previous]
       IN  [change_percent |-> change,
            direction |-> IF change.num > 0 THEN "increasing"
                          ELSE IF change.num < 0 THEN "decreasing"
                          ELSE "stable",
            recent_average |-> [num |-> recent, den |-> TrendWindow],
            previous_average |-> [num |-> previous, den |-> TrendWindow]]

_calculate_recent_trend(daily_df) ==
  IF Len(daily_df) < 2 * TrendWindow
  THEN [change_percent |-> [num |-> 0, den |-> 1],
        direction |-> "insufficient_data"]
  ELSE LET n == Len(daily_df)
           recent == SumSeq([k \in 1..TrendWindow |->
                       daily_df[n - TrendWindow + k].xp_numeric])
           previous == SumSeq([k \in 1..TrendWindow |->
                         daily_df[n - 2 * TrendWindow + k].xp_numeric])
           change == IF previous = 0
                     THEN [num |-> IF recent > 0 THEN 100 ELSE 0, den |-> 1]
                     ELSE [num |-> (recent - previous) * 100, den |-> previous]
       IN  [change_percent |-> change,
            direction |-> IF change.num > 0 THEN "increasing"
                          ELSE IF change.num < 0 THEN "decreasing"
                          ELSE "stable",
            recent_average |-> [num |-> recent, den |-> TrendWindow],
            previous_average |-> [num |-> previous, den |-> TrendWindow]]

\* one row per task type with its count and its XP (the order of the rows
\* and the two percentage columns are left out)
_calculate_task_type_distribution(df) ==
  {[Task_Type |-> t,
    Count |-> Cardinality({i \in 1..Len(df) : df[i].Task = t}),
    Total_XP |-> SumSeq([i \in 1..Len(df) |->
                   IF df[i].Task = t THEN df[i].xp_numeric ELSE 0])] :
     t \in {df[i].Task : i \in 1..Len(df)}}

\* Timestamp.isoformat(): the date and the midnight time of day
isoformat(date) == <<date, "T00:00:00">>

get_xp_statistics(self) ==
  IF self.df = <<>> THEN NoStatistics
  ELSE LET daily_df == _calculate_daily_xp(self.df)
           cumulative_df == _calculate_cumulative_xp(self.df)
           daily == {daily_df[k].xp_numeric : k \in 1..Len(daily_df)}
       IN  [total_xp |->
              Max({cumulative_df[i].cumulative_xp : i \in 1..Len(cumulative_df)}),
            average_daily_xp |->
              [num |-> SumSeq([k \in 1..Len(daily_df) |-> daily_df[k].xp_numeric]),
               den |-> Len(daily_df)],
            longest_streak |-> _calculate_longest_streak(self.df),
            current_streak |-> _calculate_current_streak(self.df),
            min_daily_xp |-> Min(daily),
            total_days |-> Len(daily_df),
            active_days |->
              Cardinality({k \in 1..Len(daily_df) : daily_df[k].xp_numeric > 0}),
            date_range |-> [start |-> isoformat(self.df[1].date),
                            end |-> isoformat(self.df[Len(self.df)].date)],
            recent_trend |-> _calculate_recent_trend(daily_df),
            task_type_stats |-> _calculate_task_type_distribution(self.df)]

(***************************************************************************)
(* ChartGenerator: the colours of the courses, the dominant course of a    *)
(* day, the segments of the XP charts and the learning heat map.           *)
(***************************************************************************)
\* the names of further courses
CourseNames ==
  <<"Course 01", "Course 02", "Course 03", "Course 04", "Course 05",
    "Course 06", "Course 07", "Course 08", "Course 09", "Course 10",
    "Course 11", "Course 12", "Course 13", "Course 14", "Course 15",
    "Course 16", "Course 17", "Course 18", "Course 19", "Course 20",
    "Course 21">>

\* the course names in the order Python compares them
SortedCourses ==
  <<<<"Algebra">>>> \o [k \in 1..Len(CourseNames) |-> <<CourseNames[k]>>]
    \o <<<<"Geometry">>, <<"Math">>>>

CourseIndex(course) ==
  CHOOSE k \in 1..Len(SortedCourses) : SortedCourses[k] = course

\* the loop over df.iterrows() with seen_courses
RECURSIVE AppearanceScan(_, _, _)
AppearanceScan(df, i, courses_in_order) ==
  IF i > Len(df) THEN courses_in_order
  ELSE AppearanceScan(df, i + 1,
         IF \E k \in 1..Len(courses_in_order) :
              courses_in_order[k] = df[i].Course
         THEN courses_in_order
         ELSE Append(courses_in_order, df[i].Course))

_get_course_appearance_order(df) ==
  IF df = <<>> THEN <<>> ELSE AppearanceScan(df, 1, <<>>)

\* Series.unique(): each value once, at the place of its first occurrence
unique(values) ==
  LET firsts == SelectSeq([i \in 1..Len(values) |-> i],
                          LAMBDA i : \A j \in 1..(i - 1) : values[j] # values[i])
  IN  [k \in 1..Len(firsts) |-> values[firsts[k]]]

\* sorted(set(values)) of course names
sorted_unique(values) ==
  SelectSeq(SortedCourses,
            LAMBDA c : \E i \in 1..Len(values) : values[i] = c)

color_palettes ==
  <<<<"#A23B72", "#F18F01", "#C73E1D", "#4ECDC4", "#95E77E", "#2E86AB",
      "#9B59B6", "#E67E22">>,
    <<"#3498DB", "#E74C3C", "#F39C12", "#27AE60", "#8E44AD", "#16A085",
      "#D35400", "#2980B9">>,
    <<"#1ABC9C", "#34495E", "#F1C40F", "#E67E22", "#95A5A6", "#D35400",
      "#C0392B", "#7F8C8D">>,
    <<"#FF6B6B", "#4ECDC4", "#45B7D1", "#96CEB4", "#FFEAA7", "#DDA0DD",
      "#98D8C8", "#F7DC6F">>,
    <<"#85C1E2", "#F8B739", "#52B788", "#E76F51", "#8E9AAF", "#C9ADA7",
      "#F2CC8F", "#81B29A">>>>

\* all_colors.extend(palette) for each palette
all_colors ==
  color_palettes[1] \o color_palettes[2] \o color_palettes[3]
    \o color_palettes[4] \o color_palettes[5]

\* the colours computed when the palettes run out
_generate_distinct_colors(count) == [k \in 1..count |-> "#generated"]

\* the colours handed out to the courses in the order all_courses lists them
AssignColors(all_courses) ==
  LET colors == IF Len(all_courses) > Len(all_colors)
                THEN all_colors
                     \o _generate_distinct_colors(Len(all_courses)
                                                  - Len(all_colors))
                ELSE all_colors
  IN  [course \in {all_courses[i] : i \in 1..Len(all_courses)} |->
         colors[CHOOSE i \in 1..Len(all_courses) : all_courses[i] = course]]

\* the courses are taken in alphabetical order
_generate_course_colors_sorted(df) ==
  IF df = <<>> THEN <<>>
  ELSE AssignColors(sorted_unique([i \in 1..Len(df) |-> df[i].Course]))

_generate_course_colors(df) ==
  IF df = <<>> THEN <<>>
  ELSE AssignColors(unique([i \in 1..Len(df) |-> df[i].Course]))

\* the XP of one course on one day: a row of groupby(['date', 'Course'])
CourseXP(df, day, course) ==
  SumSeq([i \in 1..Len(df) |->
            IF toordinal(df[i].date) = day /\ df[i].Course = course
            THEN df[i].xp_numeric ELSE 0])

Unknown == <<"Unknown">>

\* idxmax over the rows of a day, which groupby lists by course name: the
\* first course with the most XP; fillna('Unknown') for a day without rows
dominant_course(df, day) ==
  LET courses == {df[i].Course :
                    i \in {j \in 1..Len(df) : toordinal(df[j].date) = day}}
      best == {c \in courses :
                 \A o \in courses : CourseXP(df, day, o) <= CourseXP(df, day, c)}
  IN  IF courses = {} THEN Unknown
      ELSE SortedCourses[Min({CourseIndex(c) : c \in best})]

_calculate_cumulative_xp_with_dominant_course(df) ==
  LET daily_data == _calculate_cumulative_xp(df)
  IN  [i \in 1..Len(daily_data) |->
         [date |-> daily_data[i].date,
          xp_numeric |-> daily_data[i].xp_numeric,
          dominant_course |-> dominant_course(df, daily_data[i].date),
          cumulative_xp |-> daily_data[i].cumulative_xp]]

_calculate_daily_xp_with_dominant_course(df) ==
  LET daily_data == _calculate_daily_xp(df)
  IN  [k \in 1..Len(daily_data) |->
         [date |-> daily_data[k].date,
          xp_numeric |-> daily_data[k].xp_numeric,
          dominant_course |-> dominant_course(df, daily_data[k].date)]]

\* the slice keeps the row at which the course changes
AddSegment_with_boundary(segments, colored_df, start_idx, stop, course, guarded) ==
  Append(segments,
         [segment |-> SubSeq(colored_df, start_idx,
                             IF stop < Len(colored_df) THEN stop + 1 ELSE stop),
          course |-> course])

\* segments.append((colored_df.iloc[start_idx:stop], course)); the cumulative
\* chart appends a segment only 'if not segment.empty'
AddSegment(segments, colored_df, start_idx, stop, course, guarded) ==
  IF guarded /\ stop < start_idx THEN segments
  ELSE Append(segments,
              [segment |-> SubSeq(colored_df, start_idx, stop),
               course |-> course])

\* the loop 'for i in range(1, len(colored_df))' and the last segment; rows
\* are counted from 1
RECURSIVE SplitSegments(_, _, _, _, _, _)
SplitSegments(colored_df, i, start_idx, current_course, segments, guarded) ==
  IF i > Len(colored_df)
  THEN AddSegment(segments, colored_df, start_idx, Len(colored_df),
                  current_course, guarded)
  ELSE IF colored_df[i].dominant_course # current_course
       THEN SplitSegments(colored_df, i + 1, i, colored_df[i].dominant_course,
                          AddSegment(segments, colored_df, start_idx, i - 1,
                                     current_course, guarded),
                          guarded)
       ELSE SplitSegments(colored_df, i + 1, start_idx, current_course,
                          segments, guarded)

\* the segments the interactive cumulative XP chart draws
_generate_interactive_cumulative_xp(df) ==
  LET colored_df == _calculate_cumulative_xp_with_dominant_course(df)
  IN  IF colored_df = <<>> THEN <<>>
      ELSE SplitSegments(colored_df, 2, 1, colored_df[1].dominant_course,
                         <<>>, TRUE)

\* the segments the interactive daily XP chart draws
_generate_interactive_daily_xp(df) ==
  LET colored_df == _calculate_daily_xp_with_dominant_course(df)
  IN  IF colored_df = <<>> THEN <<>>
      ELSE SplitSegments(colored_df, 2, 1, colored_df[1].dominant_course,
                         <<>>, FALSE)

\* pd.Timedelta(days=364): the heat map covers the last 365 days
HeatmapSpan == 364

\* the middle threshold belongs to the lighter level
get_color_level_inclusive(xp) ==
  IF xp = 0 THEN 0
  ELSE IF xp <= 15 THEN 1
  ELSE IF xp < 30 THEN 2
  ELSE 3

get_color_level(xp) ==
  IF xp = 0 THEN 0
  ELSE IF xp < 15 THEN 1
  ELSE IF xp < 30 THEN 2
  ELSE 3

color_levels ==
  [level \in {"0", "1", "2", "3"} |->
     CASE level = "0" -> "#ebedf0"
       [] level = "1" -> "#9be9a8"
       [] level = "2" -> "#40c463"
       [] level = "3" -> "#30a14e"]

\* the rows of the heat map (date, daily_xp, color_level; the week and month
\* columns are left out), the date range, the counts and the colours
_calculate_learning_heatmap_data(df) ==
  IF df = <<>> THEN <<>>
  ELSE LET max_date == LastDay(df)
           min_date == max_date - HeatmapSpan
           \* groupby('date').sum(): the dates that have rows, and their XP
           dates == {toordinal(df[i].date) : i \in 1..Len(df)}
           daily_xp == [date \in dates |-> DayXP(df, date)]
           \* the left merge on the dates of the year, and fillna(0)
           merged(date) == IF date \in dates THEN daily_xp[date] ELSE 0
           rows == [k \in 1..(HeatmapSpan + 1) |->
                      LET xp == merged(min_date + k - 1)
                      IN  [date |-> min_date + k - 1,
                           daily_xp |-> xp,
                           color_level |-> get_color_level(xp)]]
       IN  [data |-> rows,
            date_range |-> [start |-> min_date, end |-> max_date],
            total_active_days |->
              Cardinality({date \in dates :
                             date >= min_date /\ daily_xp[date] > 0}),
            total_days |-> HeatmapSpan + 1,
            color_levels |-> color_levels]

\* datetime.weekday() of the day with this ordinal: Monday is 0, Sunday 6
weekday(date) == (date + 6) % 7

\* the week is taken to begin on Monday
days_since_sunday_from_monday(date) == weekday(date) % 7

days_since_sunday(date) == (weekday(date) + 1) % 7

days_until_saturday(date) == (5 - weekday(date)) % 7

\* while ... and week_col < 53
MaxWeekColumns == 53

\* the loop that maps (week_col, weekday_idx) to the date of the cell, one
\* Sunday-to-Saturday week per column, for the dates of first..last
RECURSIVE WeekColumns(_, _, _, _, _)
WeekColumns(current_week_start, week_col, first, last, week_column_map) ==
  IF current_week_start <= last /\ week_col < MaxWeekColumns
  THEN LET in_grid == {day_offset \in 0..6 :
                         current_week_start + day_offset \in first..last}
           week ==
             [cell \in {week_col}
                         \X {weekday(current_week_start + o) : o \in in_grid}
                |-> current_week_start
                      + (CHOOSE o \in in_grid :
                           weekday(current_week_start + o) = cell[2])]
       IN  WeekColumns(current_week_start + 7, week_col + 1, first, last,
                       week @@ week_column_map)
  ELSE [week_column_map |-> week_column_map, week_col |-> week_col]

\* the grid of the heat map: the 365 days ending at the latest date, aligned
\* to whole weeks, and the column of every date (the HTML text is left out)
_generate_learning_heatmap_html(df) ==
  LET max_date == LastDay(df)
      grid_end_date == max_date
      grid_start_date == max_date - HeatmapSpan
      aligned_start_date == grid_start_date - days_since_sunday(grid_start_date)
      aligned_end_date == grid_end_date + days_until_saturday(grid_end_date)
      sundays == {date \in aligned_start_date..aligned_end_date :
                    weekday(date) = 6}
      first_sunday == IF sundays # {} THEN Min(sundays)
                      ELSE aligned_start_date
                             - days_since_sunday(aligned_start_date)
      columns == WeekColumns(first_sunday, 0, aligned_start_date,
                             aligned_end_date, <<>>)
  IN  [aligned_start_date |-> aligned_start_date,
       aligned_end_date |-> aligned_end_date,
       first_sunday |-> first_sunday,
       week_column_map |-> columns.week_column_map,
       week_col |-> columns.week_col]

\* the dates that have rows, in ascending order (the keys of groupby('date'))
RECURSIVE Ascending(_)
Ascending(S) ==
  IF S = {} THEN <<>> ELSE <<Min(S)>> \o Ascending(S \ {Min(S)})

group_dates(df) == Ascending({toordinal(df[i].date) : i \in 1..Len(df)})

\* Series.round(1) of n / d in tenths, for d > 0: half to even
round1(n, d) ==
  LET q == (10 * n) \div d
      r == (10 * n) % d
  IN  IF 2 * r < d THEN q
      ELSE IF 2 * r > d THEN q + 1
      ELSE IF q % 2 = 0 THEN q ELSE q + 1

\* a float of the Efficiency Rate column: a number of tenths, or inf
Tenths(n) == [inf |-> FALSE, tenths |-> n]
Infinity == [inf |-> TRUE, tenths |-> 0]

\* Earned / Possible * 100, rounded, NaN filled with 0: 0 / 0 is NaN and a
\* positive number / 0 is inf, which round and fillna leave as it is
EfficiencyRate(earned, possible) ==
  IF possible = 0
  THEN IF earned = 0 THEN Tenths(0) ELSE Infinity
  ELSE Tenths(round1(100 * earned, possible))

\* one row per date with rows (the 7-day average column is left out)
_calculate_efficiency_trend(df) ==
  IF df = <<>> THEN <<>>
  ELSE LET dates == group_dates(df)
           Possible(day) ==
             SumSeq([i \in 1..Len(df) |->
                       IF toordinal(df[i].date) = day
                       THEN df[i].XP_Possible ELSE 0])
           Count(day) ==
             Cardinality({i \in 1..Len(df) : toordinal(df[i].date) = day})
       IN  [k \in 1..Len(dates) |->
              [date |-> dates[k],
               Earned_XP |-> DayXP(df, dates[k]),
               Possible_XP |-> Possible(dates[k]),
               Task_Count |-> Count(dates[k]),
               Efficiency_Rate |->
                 EfficiencyRate(DayXP(df, dates[k]), Possible(dates[k]))]]

\* the fixed colours of the task types, and the grays for the others
colors ==
  [task_type \in {"Lesson", "Review", "Quiz", "Multistep", "Placement",
                  "Supplemental"} |->
     CASE task_type = "Lesson" -> "#2E86AB"
       [] task_type = "Review" -> "#A23B72"
       [] task_type = "Quiz" -> "#C73E1D"
       [] task_type = "Multistep" -> "#F18F01"
       [] task_type = "Placement" -> "#6A994E"
       [] task_type = "Supplemental" -> "#8B5CF6"]

default_colors ==
  <<"#6B7280", "#374151", "#1F2937", "#111827", "#4B5563",
    "#9CA3AF", "#D1D5DB", "#E5E7EB", "#F3F4F6", "#F9FAFB">>

\* the colour of a task type and the counter after the call
get_task_color(task_type, unknown_task_index) ==
  IF task_type \in DOMAIN colors
  THEN [color |-> colors[task_type], unknown_task_index |-> unknown_task_index]
  ELSE [color |-> default_colors[(unknown_task_index % Len(default_colors)) + 1],
        unknown_task_index |-> unknown_task_index + 1]

\* one 'for task_type in task_types' loop: an entry per task type, with the
\* dates, XP and counts of its rows (the week and month keys are left out)
RECURSIVE TaskTypeLoop(_, _, _, _, _)
TaskTypeLoop(df, task_types, i, unknown_task_index, entries) ==
  IF i > Len(task_types)
  THEN [entries |-> entries, unknown_task_index |-> unknown_task_index]
  ELSE LET task_type == task_types[i]
           task_data == SelectSeq(df, LAMBDA row : row.Task = task_type)
           c == get_task_color(task_type, unknown_task_index)
       IN  TaskTypeLoop(df, task_types, i + 1, c.unknown_task_index,
             Append(entries,
                    [task_type |-> task_type,
                     Total_XP |-> SumSeq([k \in 1..Len(task_data) |->
                                            task_data[k].xp_numeric]),
                     Task_Count |-> Len(task_data),
                     color |-> c.color]))

\* the three loops share the counter of unknown task types
_calculate_monthly_weekly_daily_stats_by_task_type(df) ==
  IF df = <<>> THEN <<>>
  ELSE LET task_types == unique([i \in 1..Len(df) |-> df[i].Task])
           daily == TaskTypeLoop(df, task_types, 1, 0, <<>>)
           weekly == TaskTypeLoop(df, task_types, 1,
                                  daily.unknown_task_index, <<>>)
           monthly == TaskTypeLoop(df, task_types, 1,
                                   weekly.unknown_task_index, <<>>)
       IN  [daily |-> daily.entries, weekly |-> weekly.entries,
            monthly |-> monthly.entries]

(***************************************************************************)
(* The chart operations.  A call acts on fs, the files that exist, and     *)
(* returns the file it wrote or raises; ok tells whether the rendering and *)
(* the write of the file go through.                                       *)
(***************************************************************************)
ValueError(message) == [type |-> "ValueError", message |-> message]
KeyError(key) == [type |-> "KeyError", message |-> key]
OSError(message) == [type |-> "OSError", message |-> message]

Returned(fs, value) == [raised |-> None, value |-> <<value>>, files |-> fs]
Raised(fs, exc) == [raised |-> <<exc>>, value |-> None, files |-> fs]

\* the chart is written to the path the snapshot was read from
WriteChart_over_snapshot(self, fs, output_path, default_stem, interactive, ok) ==
  LET output_file == self.json_path
  IN  IF ok THEN Returned(fs \cup {output_file}, output_file)
      ELSE Raised(fs, OSError("cannot write chart"))

\* the default output path, then the suffix, then the write
WriteChart(self, fs, output_path, default_stem, interactive, ok) ==
  LET target == IF output_path = None
                THEN Path(self.json_path.dir, default_stem, "")
                ELSE output_path[1]
      output_file == ChartFile(target, interactive)
  IN  IF ok THEN Returned(fs \cup {output_file}, output_file)
      ELSE Raised(fs, OSError("cannot write chart"))

generate_cumulative_xp_chart(self, fs, output_path, interactive, ok) ==
  IF self.df = <<>>
  THEN Raised(fs, ValueError("No data available for chart generation"))
  ELSE WriteChart(self, fs, output_path, "cumulative_xp_chart", interactive, ok)

generate_daily_xp_chart(self, fs, output_path, interactive, ok) ==
  IF self.df = <<>>
  THEN Raised(fs, ValueError("No data available for chart generation"))
  ELSE WriteChart(self, fs, output_path, "daily_xp_chart", interactive, ok)

generate_combined_xp_dashboard(self, fs, output_path, ok) ==
  IF self.df = <<>>
  THEN Raised(fs, ValueError("No data available for dashboard generation"))
  ELSE WriteChart(self, fs, output_path, "xp_dashboard", TRUE, ok)

generate_task_type_pie_chart(self, fs, output_path, interactive, ok) ==
  IF self.df = <<>>
  THEN Raised(fs, ValueError("No data available for chart generation"))
  ELSE WriteChart(self, fs, output_path, "task_type_pie_chart", interactive, ok)

generate_multi_level_stats_chart(self, fs, output_path, interactive, ok) ==
  IF self.df = <<>>
  THEN Raised(fs, ValueError("No data available for chart generation"))
  ELSE WriteChart(self, fs, output_path, "multi_level_stats_chart", interactive, ok)

generate_efficiency_trend_chart(self, fs, output_path, interactive, ok) ==
  IF self.df = <<>>
  THEN Raised(fs, ValueError("No data available for chart generation"))
  ELSE WriteChart(self, fs, output_path, "efficiency_trend_chart", interactive, ok)

generate_weekday_distribution_chart(self, fs, output_path, interactive, ok) ==
  IF self.df = <<>>
  THEN Raised(fs, ValueError("No data available for chart generation"))
  ELSE WriteChart(self, fs, output_path, "weekday_distribution", interactive, ok)

generate_daily_xp_distribution_chart(self, fs, output_path, interactive, ok) ==
  IF self.df = <<>>
  THEN Raised(fs, ValueError("No data available for chart generation"))
  ELSE WriteChart(self, fs, output_path, "daily_xp_distribution", interactive, ok)

generate_comprehensive_dashboard_unguarded(self, fs, output_path, ok) ==
  WriteChart(self, fs, output_path, "comprehensive_dashboard", TRUE, ok)

generate_comprehensive_dashboard(self, fs, output_path, ok) ==
  IF self.df = <<>>
  THEN Raised(fs, ValueError("No data available for chart generation"))
  ELSE WriteChart(self, fs, output_path, "comprehensive_dashboard", TRUE, ok)

ChartOps ==
  {"generate_cumulative_xp_chart", "generate_daily_xp_chart",
   "generate_combined_xp_dashboard", "generate_task_type_pie_chart",
   "generate_multi_level_stats_chart", "generate_efficiency_trend_chart",
   "generate_weekday_distribution_chart",
   "generate_daily_xp_distribution_chart", "generate_comprehensive_dashboard"}

\* the call chart_gen.<op>(output_path, interactive=...)
Invoke(op, self, fs, output_path, interactive, ok) ==
  CASE op = "generate_cumulative_xp_chart" ->
         generate_cumulative_xp_chart(self, fs, output_path, interactive, ok)
    [] op = "generate_daily_xp_chart" ->
         generate_daily_xp_chart(self, fs, output_path, interactive, ok)
    [] op = "generate_combined_xp_dashboard" ->
         generate_combined_xp_dashboard(self, fs, output_path, ok)
    [] op = "generate_task_type_pie_chart" ->
         generate_task_type_pie_chart(self, fs, output_path, interactive, ok)
    [] op = "generate_multi_level_stats_chart" ->
         generate_multi_level_stats_chart(self, fs, output_path, interactive, ok)
    [] op = "generate_efficiency_trend_chart" ->
         generate_efficiency_trend_chart(self, fs, output_path, interactive, ok)
    [] op = "generate_weekday_distribution_chart" ->
         generate_weekday_distribution_chart(self, fs, output_path, interactive, ok)
    [] op = "generate_daily_xp_distribution_chart" ->
         generate_daily_xp_distribution_chart(self, fs, output_path, interactive, ok)
    [] op = "generate_comprehensive_dashboard" ->
         generate_comprehensive_dashboard(self, fs, output_path, ok)

(***************************************************************************)
(* The command line: what the stats command reads and prints, and the      *)
(* chart steps of generate_all in the order of the code.                   *)
(***************************************************************************)
\* the unconditional lines of the stats command and the keys each one reads
StatsLines ==
  <<[line |-> "Total XP:", reads |-> <<"total_xp">>],
    [line |-> "Average Daily XP:", reads |-> <<"average_daily_xp">>],
    [line |-> "Maximum Daily XP:", reads |-> <<"max_daily_xp">>],
    [line |-> "Minimum Daily XP:", reads |-> <<"min_daily_xp">>],
    [line |-> "Active Days:", reads |-> <<"active_days", "total_days">>],
    [line |-> "", reads |-> <<"date_range">>],
    [line |-> "", reads |-> <<"recent_trend">>]>>

\* the first key of a line that the dict does not hold, "" when it holds all
MissingKey(st, reads) ==
  IF \A k \in 1..Len(reads) : reads[k] \in DOMAIN st THEN ""
  ELSE reads[Min({k \in 1..Len(reads) : reads[k] \notin DOMAIN st})]

\* the lines printed once the keys of a line were read
StatsLineText(st, i) ==
  CASE StatsLines[i].reads = <<"date_range">> ->
         IF st.date_range.start # None /\ st.date_range.end # None
         THEN <<"Date Range:">> ELSE <<>>
    [] StatsLines[i].reads = <<"recent_trend">> ->
         IF st.recent_trend.direction # "insufficient_data"
         THEN <<"Recent Trend (7-day comparison):", "Direction:", "Change:",
                "Recent Average:", "Previous Average:">>
         ELSE <<>>
    [] OTHER -> <<StatsLines[i].line>>

RECURSIVE EchoStats(_, _, _)
EchoStats(st, i, out) ==
  IF i > Len(StatsLines) THEN [stdout |-> out, raised |-> None]
  ELSE IF MissingKey(st, StatsLines[i].reads) # ""
       THEN [stdout |-> out,
             raised |-> <<KeyError(MissingKey(st, StatsLines[i].reads))>>]
       ELSE EchoStats(st, i + 1, out \o StatsLineText(st, i))

\* the statistics block at the end of generate_all
SummaryReads == <<"total_xp", "average_daily_xp", "active_days", "total_days">>

\* the dashboard comes after the individual charts
InteractiveCharts_dashboard_last ==
  <<[op |-> "generate_cumulative_xp_chart", stem |-> "data_cumulative_xp",
     label |-> "Interactive Cumulative XP"],
    [op |-> "generate_daily_xp_chart", stem |-> "data_daily_xp",
     label |-> "Interactive Daily XP"],
    [op |-> "generate_task_type_pie_chart", stem |-> "data_task_type",
     label |-> "Interactive Task Type"],
    [op |-> "generate_multi_level_stats_chart", stem |-> "data_multi_level_stats",
     label |-> "Interactive Multi-level Stats"],
    [op |-> "generate_efficiency_trend_chart", stem |-> "data_efficiency_trend",
     label |-> "Interactive Efficiency Trend"],
    [op |-> "generate_weekday_distribution_chart",
     stem |-> "data_weekday_distribution",
     label |-> "Interactive Weekday Distribution"],
    [op |-> "generate_daily_xp_distribution_chart",
     stem |-> "data_daily_xp_distribution",
     label |-> "Interactive Daily XP Distribution"],
    [op |-> "generate_comprehensive_dashboard", stem |-> "data_dashboard",
     label |-> "Interactive Dashboard"]>>

InteractiveCharts ==
  <<[op |-> "generate_comprehensive_dashboard", stem |-> "data_dashboard",
     label |-> "Interactive Dashboard"],
    [op |-> "generate_cumulative_xp_chart", stem |-> "data_cumulative_xp",
     label |-> "Interactive Cumulative XP"],
    [op |-> "generate_daily_xp_chart", stem |-> "data_daily_xp",
     label |-> "Interactive Daily XP"],
    [op |-> "generate_task_type_pie_chart", stem |-> "data_task_type",
     label |-> "Interactive Task Type"],
    [op |-> "generate_multi_level_stats_chart", stem |-> "data_multi_level_stats",
     label |-> "Interactive Multi-level Stats"],
    [op |-> "generate_efficiency_trend_chart", stem |-> "data_efficiency_trend",
     label |-> "Interactive Efficiency Trend"],
    [op |-> "generate_weekday_distribution_chart",
     stem |-> "data_weekday_distribution",
     label |-> "Interactive Weekday Distribution"],
    [op |-> "generate_daily_xp_distribution_chart",
     stem |-> "data_daily_xp_distribution",
     label |-> "Interactive Daily XP Distribution"]>>

StaticCharts ==
  <<[op |-> "generate_cumulative_xp_chart", stem |-> "data_cumulative_xp_static",
     label |-> "Static Cumulative XP"],
    [op |-> "generate_daily_xp_chart", stem |-> "data_daily_xp_static",
     label |-> "Static Daily XP"],
    [op |-> "generate_task_type_pie_chart", stem |-> "data_task_type_static",
     label |-> "Static Task Type"],
    [op |-> "generate_multi_level_stats_chart",
     stem |-> "data_multi_level_stats_static",
     label |-> "Static Multi-level Stats"],
    [op |-> "generate_efficiency_trend_chart",
     stem |-> "data_efficiency_trend_static",
     label |-> "Static Efficiency Trend"],
    [op |-> "generate_weekday_distribution_chart",
     stem |-> "data_weekday_distribution_static",
     label |-> "Static Weekday Distribution"],
    [op |-> "generate_daily_xp_distribution_chart",
     stem |-> "data_daily_xp_distribution_static",
     label |-> "Static Daily XP Distribution"]>>

\* the --chart-type choices of the chart command
ChartTypes == {"all", "xp", "task-type", "multi-level", "efficiency", "weekday",
               "daily-dist", "dashboard"}

\* the chart calls of the chart command, in the order of the code
ChartSteps(dashboard, chart_type) ==
  (IF dashboard \/ chart_type = "all" \/ chart_type = "xp"
   THEN IF dashboard
        THEN <<[op |-> "generate_combined_xp_dashboard", stem |-> "xp_dashboard",
                label |-> "Dashboard:"]>>
        ELSE <<[op |-> "generate_cumulative_xp_chart", stem |-> "cumulative_xp",
                label |-> "Cumulative XP chart:"],
               [op |-> "generate_daily_xp_chart", stem |-> "daily_xp",
                label |-> "Daily XP chart:"]>>
   ELSE <<>>)
  \o (IF chart_type = "all" \/ chart_type = "task-type"
      THEN <<[op |-> "generate_task_type_pie_chart",
              stem |-> "task_type_distribution",
              label |-> "Task type distribution chart:"]>>
      ELSE <<>>)
  \o (IF chart_type = "all" \/ chart_type = "multi-level"
      THEN <<[op |-> "generate_multi_level_stats_chart",
              stem |-> "multi_level_stats",
              label |-> "Multi-level statistics chart:"]>>
      ELSE <<>>)
  \o (IF chart_type = "all" \/ chart_type = "efficiency"
      THEN <<[op |-> "generate_efficiency_trend_chart",
              stem |-> "efficiency_trend",
              label |-> "Learning efficiency chart:"]>>
      ELSE <<>>)
  \o (IF chart_type = "all" \/ chart_type = "weekday"
      THEN <<[op |-> "generate_weekday_distribution_chart",
              stem |-> "weekday_distribution",
              label |-> "Average Daily XP by weekday chart:"]>>
      ELSE <<>>)
  \o (IF chart_type = "all" \/ chart_type = "daily-dist"
      THEN <<[op |-> "generate_daily_xp_distribution_chart",
              stem |-> "daily_xp_distribution",
              label |-> "Daily XP distribution chart:"]>>
      ELSE <<>>)
  \o (IF chart_type = "all" \/ chart_type = "dashboard"
      THEN <<[op |-> "generate_comprehensive_dashboard",
              stem |-> "comprehensive_dashboard",
              label |-> "Comprehensive dashboard:"]>>
      ELSE <<>>)

\* the chart calls from step i on; the write of step fail_at does not go
\* through (0: every write does); the first exception ends the calls
RECURSIVE RunChartSteps(_, _, _, _, _, _, _)
RunChartSteps(self, fs, steps, i, interactive, fail_at, generated_charts) ==
  IF i > Len(steps)
  THEN [raised |-> None, files |-> fs, generated_charts |-> generated_charts]
  ELSE LET r == Invoke(steps[i].op, self, fs,
                       <<Path(self.json_path.dir, steps[i].stem, "")>>,
                       interactive, i # fail_at)
       IN  IF r.raised # None
           THEN [raised |-> r.raised, files |-> r.files,
                 generated_charts |-> generated_charts]
           ELSE RunChartSteps(self, r.files, steps, i + 1, interactive, fail_at,
                              Append(generated_charts, steps[i].label))

\* the statistics block of the chart command
ChartStatsText(st) ==
  IF DOMAIN st = {} THEN <<>>
  ELSE <<"XP Statistics:", "Total XP:", "Average Daily XP:", "Active Days:">>
       \o (IF st.recent_trend.direction # "insufficient_data"
           THEN <<"Recent Trend:">> ELSE <<>>)

\* str.lower() on the words a search meets
lower(s) ==
  CASE s = "Quiz" -> "quiz"
    [] s = "QUIZ" -> "quiz"
    [] s = "XP" -> "xp"
    [] OTHER -> s

\* search_term.lower() in text.lower(), word by word
search_text(content, search_term) ==
  \E i \in 1..Len(content) : \E k \in 1..Len(content[i]) :
    lower(content[i][k]) = lower(search_term)

SearchTerms == {"QUIZ", "xp", "absent"}

\* the file the --output option of a PDF command names
OutputFile == Path("out", "result", "json")

\* where generate_all goes once the PDF is parsed
AfterParse_ignoring_empty(data, generate_data) ==
  IF generate_data THEN "excel" ELSE "load"

AfterParse(data, generate_data) ==
  IF data = <<>> THEN "done"
  ELSE IF generate_data THEN "excel" ELSE "load"

(***************************************************************************)
(* State.                                                                  *)
(***************************************************************************)
VARIABLES
  \* the locals of course_parser.parse_course_data while it scans
  current_date, daily_total, course_data,
  \* the locals of course_parser_backup.parse_course_data on the same text
  current_date_backup, daily_total_backup, course_data_backup,
  \* history of the text read so far: the latest date-header token ("" when
  \* none was read), and whether a task line came before the first header
  latest_header, early_task,
  \* the text of the PDF the export and chart layer works on
  pdf_text,
  \* where the running command or session stands, and what was invoked
  pc, cmd,
  \* the files of the output directory and what its JSON files hold
  files, json_files,
  \* the two output streams of the command
  stdout, stderr,
  \* the ChartGenerator in use (None or <<object>>), the outcome of the last
  \* call on it, and how many calls were made
  chart_gen, outcome, calls,
  \* the locals of generate_all
  ga,
  \* the exception raised inside the body of the command (None or <<exc>>) and
  \* whether it left the command function
  body_error

scan_vars == <<current_date, daily_total, course_data,
               current_date_backup, daily_total_backup, course_data_backup,
               latest_header, early_task>>


(***************************************************************************)
(* The export, chart and command-line layer at work on one PDF.           *)
(***************************************************************************)
MaxChartCalls == 2

cli_vars == <<pdf_text, pc, cmd, files, json_files, stdout, stderr,
              chart_gen, outcome, calls, ga, body_error>>

vars == <<scan_vars, cli_vars>>

NoCommand == [name |-> "", flags |-> {}, data |-> None]

NoError == [raised |-> None, propagated |-> FALSE]

NoOutcome ==
  [op |-> "", raised |-> None, value |-> None, stats |-> NoStatistics]

\* the locals of generate_all
NoLocals ==
  [parsed |-> FALSE, data |-> <<>>, generated_files |-> <<>>,
   json_file_path |-> None, next |-> 1]

\* nothing has run: an empty output directory, no output, no object
AtRest ==
  /\ pc = "idle"
  /\ cmd = NoCommand
  /\ files = {}
  /\ json_files = [p \in JsonPaths |-> AbsentSnapshot]
  /\ stdout = <<>>
  /\ stderr = <<>>
  /\ chart_gen = None
  /\ outcome = NoOutcome
  /\ calls = 0
  /\ ga = NoLocals
  /\ body_error = NoError

Locals == [current_date |-> current_date, daily_total |-> daily_total,
           course_data |-> course_data]

Locals_backup == [current_date |-> current_date_backup,
                  daily_total |-> daily_total_backup,
                  course_data |-> course_data_backup]

\* a line that holds a task (regular or placement) and no date header
IsTaskLine(raw) ==
  /\ date_match(strip(raw)) = 0
  /\ \/ regular_match(strip(raw)) # None
     \/ placement_match(strip(raw)) # None

InitScan ==
  /\ current_date = ParseStart.current_date
  /\ daily_total = ParseStart.daily_total
  /\ course_data = ParseStart.course_data
  /\ current_date_backup = ParseStart.current_date
  /\ daily_total_backup = ParseStart.daily_total
  /\ course_data_backup = ParseStart.course_data
  /\ latest_header = ""
  /\ early_task = FALSE

\* both parsers take the next line of the text
ReadLine ==
  /\ Len(course_data) < MaxRecords
  /\ Len(course_data_backup) < MaxRecords
  /\ \E raw \in Lines :
       LET p == parse_line(Locals, raw)
           q == parse_line_backup(Locals_backup, raw)
           d == date_match(strip(raw))
       IN  /\ current_date' = p.current_date
           /\ daily_total' = p.daily_total
           /\ course_data' = p.course_data
           /\ current_date_backup' = q.current_date
           /\ daily_total_backup' = q.daily_total
           /\ course_data_backup' = q.course_data
           /\ latest_header' = IF d # 0 THEN strip(raw)[d] ELSE latest_header
           /\ early_task' = (early_task \/ (latest_header = "" /\ IsTaskLine(raw)))
  /\ UNCHANGED cli_vars

NextParse == ReadLine

InitParse ==
  /\ InitScan
  /\ pdf_text = <<>>
  /\ AtRest

SpecParse == InitParse /\ [][NextParse]_vars

World == [files |-> files, json_files |-> json_files, stdout |-> stdout]

SetWorld(w) ==
  /\ files' = w.files
  /\ json_files' = w.json_files
  /\ stdout' = w.stdout

\* the handler re-raises instead of reporting
except_Exception_reraise(exc, trace) == [stderr |-> <<>>, propagated |-> TRUE]

\* except Exception as e: the error line, for generate_all the trace as well,
\* and the command function returns
except_Exception(exc, trace) ==
  [stderr |-> IF trace
              THEN <<<<"Error:", exc.message>>, <<"Debug info:", exc.type>>>>
              ELSE <<<<"Error:", exc.message>>>>,
   propagated |-> FALSE]

\* exc was raised inside the try block of the command
Catch(exc, trace) ==
  LET handled == except_Exception(exc, trace)
  IN  /\ stderr' = stderr \o handled.stderr
      /\ body_error' = [raised |-> <<exc>>, propagated |-> handled.propagated]

\* the data argument of a direct call: omitted, an empty list, the records
DataArgs == {None, <<<<>>>>, <<parse_course_data(pdf_text)>>}

\* the snapshot a JSON path names: one without activities, one with an empty
\* list, or the one an earlier export of this PDF wrote
SnapshotInputs ==
  {AbsentSnapshot, EmptySnapshot}
    \cup {JsonSnapshot(d) : d \in {parse_course_data(pdf_text)} \ {<<>>}}

Call_export_to_excel ==
  /\ pc = "idle"
  /\ \E data_arg \in DataArgs :
       /\ SetWorld(export_to_excel(pdf_text, World, ExcelPath, data_arg))
       /\ cmd' = [name |-> "export_to_excel", flags |-> {}, data |-> data_arg]
  /\ outcome' = [NoOutcome EXCEPT !.op = "export_to_excel"]
  /\ pc' = "done"
  /\ UNCHANGED <<pdf_text, stderr, body_error, chart_gen, calls, ga, scan_vars>>

Call_export_to_json ==
  /\ pc = "idle"
  /\ \E data_arg \in DataArgs :
       /\ SetWorld(export_to_json(pdf_text, World, JsonPath, data_arg))
       /\ cmd' = [name |-> "export_to_json", flags |-> {}, data |-> data_arg]
  /\ outcome' = [NoOutcome EXCEPT !.op = "export_to_json"]
  /\ pc' = "done"
  /\ UNCHANGED <<pdf_text, stderr, body_error, chart_gen, calls, ga, scan_vars>>

Call_export_to_excel_and_json ==
  /\ pc = "idle"
  /\ \E data_arg \in DataArgs :
       /\ SetWorld(export_to_excel_and_json(pdf_text, World, ExcelPath,
                                            JsonPath, data_arg))
       /\ cmd' = [name |-> "export_to_excel_and_json", flags |-> {},
                  data |-> data_arg]
  /\ outcome' = [NoOutcome EXCEPT !.op = "export_to_excel_and_json"]
  /\ pc' = "done"
  /\ UNCHANGED <<pdf_text, stderr, body_error, chart_gen, calls, ga, scan_vars>>

\* the export command; readable tells whether the PDF can be read
export ==
  /\ pc = "idle"
  /\ \E flags \in SUBSET {"--json-only", "--excel-only"}, readable \in BOOLEAN :
       LET data == parse_course_data(pdf_text)
           export_excel == "--json-only" \notin flags
           export_json == "--excel-only" \notin flags
           json_path == with_suffix(OutputPath, "json")
           w0 == print(World, "Parsing PDF:")
           w1 == IF export_excel /\ export_json
                 THEN export_to_excel_and_json(pdf_text, w0, OutputPath,
                                               json_path, <<data>>)
                 ELSE IF export_excel
                 THEN export_to_excel(pdf_text, w0, OutputPath, <<data>>)
                 ELSE IF export_json
                 THEN export_to_json(pdf_text, w0, json_path, <<data>>)
                 ELSE w0
       IN  /\ cmd' = [name |-> "export", flags |-> flags, data |-> None]
           /\ IF readable
              THEN /\ SetWorld(print(w1, "Successfully exported"))
                   /\ UNCHANGED <<stderr, body_error>>
              ELSE /\ SetWorld(w0)
                   /\ Catch(OSError("cannot read PDF"), FALSE)
  /\ pc' = "done"
  /\ UNCHANGED <<pdf_text, chart_gen, outcome, calls, ga, scan_vars>>

\* the stats command on the snapshot its argument names
stats ==
  /\ pc = "idle"
  /\ \E document \in SnapshotInputs :
       LET gen == ChartGenerator(SnapshotPath, document)
           result == get_xp_statistics(gen)
           echoed == EchoStats(result, 1, <<"XP Statistics for", "=====">>)
       IN  /\ chart_gen' = <<gen>>
           /\ IF DOMAIN result = {}
              THEN /\ stdout' = <<"No statistics available - no data found in JSON file">>
                   /\ UNCHANGED <<stderr, body_error>>
              ELSE /\ stdout' = echoed.stdout
                   /\ IF echoed.raised = None
                      THEN UNCHANGED <<stderr, body_error>>
                      ELSE Catch(echoed.raised[1], FALSE)
  /\ cmd' = [name |-> "stats", flags |-> {}, data |-> None]
  /\ pc' = "done"
  /\ UNCHANGED <<pdf_text, files, json_files, outcome, calls, ga, scan_vars>>

\* ChartGenerator(json_path) on the snapshot the path names
NewChartGenerator ==
  /\ pc = "idle"
  /\ \E document \in SnapshotInputs :
       chart_gen' = <<ChartGenerator(SnapshotPath, document)>>
  /\ cmd' = [name |-> "ChartGenerator", flags |-> {}, data |-> None]
  /\ pc' = "charting"
  /\ UNCHANGED <<pdf_text, files, json_files, stdout, stderr, body_error, outcome, calls,
                 ga, scan_vars>>

Call_get_xp_statistics ==
  /\ pc = "charting"
  /\ calls < MaxChartCalls
  /\ outcome' = [op |-> "get_xp_statistics", raised |-> None, value |-> None,
                 stats |-> get_xp_statistics(chart_gen[1])]
  /\ calls' = calls + 1
  /\ UNCHANGED <<pdf_text, pc, cmd, files, json_files, stdout, stderr, body_error,
                 chart_gen, ga, scan_vars>>

\* a chart operation was called with its default output path
Called(op, r) ==
  /\ pc = "charting"
  /\ calls < MaxChartCalls
  /\ files' = r.files
  /\ outcome' = [op |-> op, raised |-> r.raised, value |-> r.value,
                 stats |-> NoStatistics]
  /\ calls' = calls + 1
  /\ UNCHANGED <<pdf_text, pc, cmd, json_files, stdout, stderr, body_error, chart_gen, ga,
                 scan_vars>>

Call_generate_cumulative_xp_chart ==
  /\ pc = "charting"
  /\ \E interactive \in BOOLEAN, ok \in BOOLEAN :
       Called("generate_cumulative_xp_chart",
              generate_cumulative_xp_chart(chart_gen[1], files, None,
                                           interactive, ok))

Call_generate_daily_xp_chart ==
  /\ pc = "charting"
  /\ \E interactive \in BOOLEAN, ok \in BOOLEAN :
       Called("generate_daily_xp_chart",
              generate_daily_xp_chart(chart_gen[1], files, None,
                                      interactive, ok))

Call_generate_combined_xp_dashboard ==
  /\ pc = "charting"
  /\ \E ok \in BOOLEAN :
       Called("generate_combined_xp_dashboard",
              generate_combined_xp_dashboard(chart_gen[1], files, None, ok))

Call_generate_task_type_pie_chart ==
  /\ pc = "charting"
  /\ \E interactive \in BOOLEAN, ok \in BOOLEAN :
       Called("generate_task_type_pie_chart",
              generate_task_type_pie_chart(chart_gen[1], files, None,
                                           interactive, ok))

Call_generate_multi_level_stats_chart ==
  /\ pc = "charting"
  /\ \E interactive \in BOOLEAN, ok \in BOOLEAN :
       Called("generate_multi_level_stats_chart",
              generate_multi_level_stats_chart(chart_gen[1], files, None,
                                               interactive, ok))

Call_generate_efficiency_trend_chart ==
  /\ pc = "charting"
  /\ \E interactive \in BOOLEAN, ok \in BOOLEAN :
       Called("generate_efficiency_trend_chart",
              generate_efficiency_trend_chart(chart_gen[1], files, None,
                                              interactive, ok))

Call_generate_weekday_distribution_chart ==
  /\ pc = "charting"
  /\ \E interactive \in BOOLEAN, ok \in BOOLEAN :
       Called("generate_weekday_distribution_chart",
              generate_weekday_distribution_chart(chart_gen[1], files, None,
                                                  interactive, ok))

Call_generate_daily_xp_distribution_chart ==
  /\ pc = "charting"
  /\ \E interactive \in BOOLEAN, ok \in BOOLEAN :
       Called("generate_daily_xp_distribution_chart",
              generate_daily_xp_distribution_chart(chart_gen[1], files, None,
                                                   interactive, ok))

Call_generate_comprehensive_dashboard ==
  /\ pc = "charting"
  /\ \E ok \in BOOLEAN :
       Called("generate_comprehensive_dashboard",
              generate_comprehensive_dashboard(chart_gen[1], files, None, ok))

(***************************************************************************)
(* generate_all, step by step.                                             *)
(***************************************************************************)
generate_data == "--charts-only" \notin cmd.flags
generate_charts == "--data-only" \notin cmd.flags
generate_interactive == "--static-only" \notin cmd.flags
generate_static == "--interactive-only" \notin cmd.flags

ChartsDir == "out/charts"

\* except Exception: the error line and the trace, and the command ends
Fail(exc) ==
  /\ Catch(exc, TRUE)
  /\ pc' = "done"

\* the command starts: the paths, the banner, what to generate
generate_all ==
  /\ pc = "idle"
  /\ \E flags \in SUBSET {"--static-only", "--interactive-only",
                          "--data-only", "--charts-only"} :
       /\ cmd' = [name |-> "generate_all", flags |-> flags, data |-> None]
       /\ pc' = IF "--charts-only" \notin flags \/ "--data-only" \notin flags
                THEN "parse" ELSE "summary"
  /\ stdout' = <<"Processing PDF:", "Output directory:", "Base filename:">>
  /\ UNCHANGED <<pdf_text, files, json_files, stderr, body_error, chart_gen, outcome,
                 calls, ga, scan_vars>>

\* step 1
GA_Parse ==
  /\ pc = "parse"
  /\ \E readable \in BOOLEAN :
       LET data == parse_course_data(pdf_text)
           out == Append(stdout, "Step 1: Parsing course data from PDF...")
       IN  IF ~readable
           THEN /\ Fail(OSError("cannot read PDF"))
                /\ stdout' = out
                /\ ga' = ga
           ELSE /\ ga' = [ga EXCEPT !.parsed = TRUE, !.data = data]
                /\ pc' = AfterParse(data, generate_data)
                /\ IF data = <<>>
                   THEN /\ stdout' = out
                        /\ stderr' = <<<<"No course data found in PDF. Cannot proceed.">>>>
                        /\ body_error' = body_error
                   ELSE /\ stdout' = Append(out, "Parsed activity records")
                        /\ UNCHANGED <<stderr, body_error>>
  /\ UNCHANGED <<pdf_text, cmd, files, json_files, chart_gen, outcome, calls,
                 scan_vars>>

\* step 2, the Excel file
GA_Excel ==
  /\ pc = "excel"
  /\ \E ok \in BOOLEAN :
       LET w0 == print(World, "Step 2: Generating data files...")
       IN  IF ok
           THEN /\ SetWorld(print(export_to_excel(pdf_text, w0, ExcelPath,
                                                  <<ga.data>>),
                                  "Excel file:"))
                /\ ga' = [ga EXCEPT !.generated_files =
                                      Append(@, <<"Excel", ExcelPath>>)]
                /\ pc' = "json"
                /\ UNCHANGED <<stderr, body_error>>
           ELSE /\ Fail(OSError("cannot write Excel file"))
                /\ SetWorld(w0)
                /\ ga' = ga
  /\ UNCHANGED <<pdf_text, cmd, chart_gen, outcome, calls, scan_vars>>

\* step 2, the JSON file
GA_Json ==
  /\ pc = "json"
  /\ \E ok \in BOOLEAN :
       IF ok
       THEN /\ SetWorld(print(export_to_json(pdf_text, World, JsonPath,
                                             <<ga.data>>),
                              "JSON file:"))
            /\ ga' = [ga EXCEPT !.generated_files =
                                  Append(@, <<"JSON", JsonPath>>)]
            /\ pc' = IF generate_charts THEN "load" ELSE "summary"
            /\ UNCHANGED <<stderr, body_error>>
       ELSE /\ Fail(OSError("cannot write JSON file"))
            /\ SetWorld(World)
            /\ ga' = ga
  /\ UNCHANGED <<pdf_text, cmd, chart_gen, outcome, calls, scan_vars>>

\* step 3, the snapshot to chart from and the ChartGenerator on it
GA_Load ==
  /\ pc = "load"
  /\ \E ok \in BOOLEAN :
       LET json_file_path == IF generate_data THEN <<JsonPath>> ELSE None
           needs_temp == \/ json_file_path = None
                         \/ json_file_path[1] \notin files
           path == IF needs_temp THEN TempJsonPath ELSE JsonPath
           w0 == print(World, "Step 3: Generating charts...")
           w1 == IF needs_temp
                 THEN export_to_json(pdf_text, w0, TempJsonPath, <<ga.data>>)
                 ELSE w0
       IN  IF needs_temp /\ ~ok
           THEN /\ Fail(OSError("cannot write JSON file"))
                /\ SetWorld(w0)
                /\ UNCHANGED <<ga, chart_gen>>
           ELSE /\ SetWorld(w1)
                /\ chart_gen' = <<ChartGenerator(path, w1.json_files[path])>>
                /\ ga' = [ga EXCEPT
                            !.json_file_path = <<path>>,
                            !.generated_files =
                               IF needs_temp
                               THEN Append(@, <<"Temporary JSON", path>>)
                               ELSE @,
                            !.next = 1]
                /\ pc' = IF generate_interactive THEN "interactive"
                         ELSE IF generate_static THEN "static"
                         ELSE "cleanup"
                /\ UNCHANGED <<stderr, body_error>>
  /\ UNCHANGED <<pdf_text, cmd, outcome, calls, scan_vars>>

\* the next interactive chart
GA_Interactive ==
  /\ pc = "interactive"
  /\ \E ok \in BOOLEAN :
       LET step == InteractiveCharts[ga.next]
           last == ga.next = Len(InteractiveCharts)
           r == Invoke(step.op, chart_gen[1], files,
                       <<Path(ChartsDir, step.stem, "")>>, TRUE, ok)
           out == IF ga.next = 1
                  THEN Append(stdout, "Generating interactive HTML charts...")
                  ELSE stdout
       IN  /\ files' = r.files
           /\ IF r.raised # None
              THEN /\ Fail(r.raised[1])
                   /\ stdout' = out
                   /\ ga' = ga
              ELSE /\ ga' = [ga EXCEPT
                               !.generated_files =
                                  Append(@, <<step.label, r.value[1]>>),
                               !.next = IF last THEN 1 ELSE @ + 1]
                   /\ stdout' = IF last
                                THEN Append(out, "Generated interactive charts")
                                ELSE out
                   /\ pc' = IF ~last THEN "interactive"
                            ELSE IF generate_static THEN "static"
                            ELSE "cleanup"
                   /\ UNCHANGED <<stderr, body_error>>
  /\ UNCHANGED <<pdf_text, cmd, json_files, chart_gen, outcome, calls,
                 scan_vars>>

\* the next static chart
GA_Static ==
  /\ pc = "static"
  /\ \E ok \in BOOLEAN :
       LET step == StaticCharts[ga.next]
           last == ga.next = Len(StaticCharts)
           r == Invoke(step.op, chart_gen[1], files,
                       <<Path(ChartsDir, step.stem, "")>>, FALSE, ok)
           out == IF ga.next = 1
                  THEN Append(stdout, "Generating static PNG charts...")
                  ELSE stdout
       IN  /\ files' = r.files
           /\ IF r.raised # None
              THEN /\ Fail(r.raised[1])
                   /\ stdout' = out
                   /\ ga' = ga
              ELSE /\ ga' = [ga EXCEPT
                               !.generated_files =
                                  Append(@, <<step.label, r.value[1]>>),
                               !.next = IF last THEN 1 ELSE @ + 1]
                   /\ stdout' = IF last
                                THEN Append(out, "Generated static charts")
                                ELSE out
                   /\ pc' = IF last THEN "cleanup" ELSE "static"
                   /\ UNCHANGED <<stderr, body_error>>
  /\ UNCHANGED <<pdf_text, cmd, json_files, chart_gen, outcome, calls,
                 scan_vars>>

\* the temporary JSON is removed, from the directory and from the manifest
GA_Cleanup ==
  /\ pc = "cleanup"
  /\ LET path == ga.json_file_path[1]
         temporary == /\ ~generate_data
                      /\ path.stem = "data_temp"
                      /\ path \in files
     IN  /\ files' = IF temporary THEN files \ {path} ELSE files
         /\ json_files' = IF temporary
                          THEN [json_files EXCEPT ![path] = AbsentSnapshot]
                          ELSE json_files
         /\ ga' = IF temporary
                  THEN [ga EXCEPT !.generated_files =
                          SelectSeq(@, LAMBDA f : f[1] # "Temporary JSON")]
                  ELSE ga
  /\ pc' = "summary"
  /\ UNCHANGED <<pdf_text, cmd, stdout, stderr, body_error, chart_gen, outcome, calls,
                 scan_vars>>

\* the summary, the manifest and the statistics block
GA_Summary ==
  /\ pc = "summary"
  /\ LET result == IF generate_charts THEN get_xp_statistics(chart_gen[1])
                   ELSE NoStatistics
         out == stdout \o <<"GENERATION COMPLETE", "Total files generated:",
                            "Generated files:">>
     IN  IF DOMAIN result = {}
         THEN /\ stdout' = Append(out, "All files saved to:")
              /\ UNCHANGED <<stderr, body_error>>
              /\ pc' = "done"
         ELSE IF MissingKey(result, SummaryReads) # ""
         THEN /\ Fail(KeyError(MissingKey(result, SummaryReads)))
              /\ stdout' = Append(out, "XP Statistics:")
         ELSE /\ stdout' = out \o <<"XP Statistics:", "Total XP:",
                                    "Average Daily XP:", "Active Days:",
                                    "All files saved to:">>
              /\ UNCHANGED <<stderr, body_error>>
              /\ pc' = "done"
  /\ UNCHANGED <<pdf_text, cmd, files, json_files, chart_gen, outcome, calls,
                 ga, scan_vars>>

(***************************************************************************)
(* The commands that read the PDF and show or save what they read, and the *)
(* chart command.  Each body is one try block.                            *)
(***************************************************************************)
\* the PDF is read; then the result is saved to --output or shown
Extract(name, opts, readable, writable, saved, shown) ==
  /\ pc = "idle"
  /\ cmd' = [name |-> name, flags |-> opts, data |-> None]
  /\ IF ~readable
     THEN /\ Catch(OSError("cannot read PDF"), FALSE)
          /\ UNCHANGED <<files, stdout>>
     ELSE IF "--output" \in opts
     THEN IF writable
          THEN /\ files' = files \cup {OutputFile}
               /\ stdout' = <<saved>>
               /\ UNCHANGED <<stderr, body_error>>
          ELSE /\ Catch(OSError("cannot write output file"), FALSE)
               /\ UNCHANGED <<files, stdout>>
     ELSE /\ stdout' = shown
          /\ UNCHANGED <<files, stderr, body_error>>
  /\ pc' = "done"
  /\ UNCHANGED <<pdf_text, json_files, chart_gen, outcome, calls, ga, scan_vars>>

text ==
  \E opts \in SUBSET {"--output", "--pages"}, readable, writable \in BOOLEAN :
    Extract("text", opts, readable, writable,
            IF "--pages" \in opts THEN "Text by page saved to"
            ELSE "Text saved to",
            IF "--pages" \in opts
            THEN <<"=== Page 1 ===", "page_text", "">>
            ELSE <<"result">>)

tables ==
  \E opts \in SUBSET {"--output", "--pages"}, readable, writable \in BOOLEAN,
     has_table \in BOOLEAN :
    Extract("tables", opts, readable, writable,
            IF "--pages" \in opts THEN "Tables by page saved to"
            ELSE "Tables saved to",
            (IF "--pages" \in opts THEN <<"=== Page 1 ===">> ELSE <<>>)
            \o (IF has_table THEN <<"Table 1:", "row", "">> ELSE <<>>))

\* the file name is shown before the PDF is opened
info ==
  /\ pc = "idle"
  /\ \E readable \in BOOLEAN, metadata \in BOOLEAN :
       IF ~readable
       THEN /\ stdout' = <<"PDF file:">>
            /\ Catch(OSError("cannot read PDF"), FALSE)
       ELSE /\ stdout' = <<"PDF file:", "Pages:">>
                         \o (IF metadata THEN <<"Metadata:", "key: value">>
                             ELSE <<"No metadata found">>)
            /\ UNCHANGED <<stderr, body_error>>
  /\ cmd' = [name |-> "info", flags |-> {}, data |-> None]
  /\ pc' = "done"
  /\ UNCHANGED <<pdf_text, files, json_files, chart_gen, outcome, calls, ga,
                 scan_vars>>

search ==
  \E opts \in SUBSET {"--output"}, readable, writable \in BOOLEAN,
     search_term \in SearchTerms :
    Extract("search", opts, readable, writable, "Search results saved to",
            IF search_text(pdf_text, search_term)
            THEN <<"Found in locations:", "Page 1:">>
            ELSE <<"not found in the PDF">>)

positions ==
  \E opts \in SUBSET {"--output"}, readable, writable \in BOOLEAN,
     more \in BOOLEAN :
    Extract("positions", opts, readable, writable, "Text positions saved to",
            <<"Page 1:">> \o (IF more THEN <<"... and more characters">>
                              ELSE <<>>))

\* the chart command on the snapshot its argument names
chart ==
  /\ pc = "idle"
  /\ \E document \in SnapshotInputs, static, dashboard \in BOOLEAN,
        chart_type \in ChartTypes, fail_at \in 0..2 :
       LET gen == ChartGenerator(SnapshotPath, document)
           st == get_xp_statistics(gen)
           out == <<"Generating charts from:", "Output directory:">>
                  \o ChartStatsText(st)
           run == RunChartSteps(gen, files, ChartSteps(dashboard, chart_type),
                                1, ~static, fail_at, <<>>)
       IN  /\ chart_gen' = <<gen>>
           /\ files' = run.files
           /\ cmd' = [name |-> "chart",
                      flags |-> {chart_type}
                                \cup (IF static THEN {"--static"} ELSE {})
                                \cup (IF dashboard THEN {"--dashboard"} ELSE {}),
                      data |-> None]
           /\ IF run.raised # None
              THEN /\ stdout' = out
                   /\ Catch(run.raised[1], FALSE)
              ELSE /\ stdout' = IF run.generated_charts = <<>> THEN out
                                ELSE (out \o <<"Generated charts:">>)
                                     \o run.generated_charts
                   /\ UNCHANGED <<stderr, body_error>>
  /\ pc' = "done"
  /\ UNCHANGED <<pdf_text, json_files, outcome, calls, ga, scan_vars>>

Init ==
  /\ InitScan
  /\ pdf_text \in Texts
  /\ AtRest

Next ==
  \/ Call_export_to_excel
  \/ Call_export_to_json
  \/ Call_export_to_excel_and_json
  \/ text
  \/ tables
  \/ info
  \/ search
  \/ positions
  \/ export
  \/ chart
  \/ stats
  \/ NewChartGenerator
  \/ Call_get_xp_statistics
  \/ Call_generate_cumulative_xp_chart
  \/ Call_generate_daily_xp_chart
  \/ Call_generate_combined_xp_dashboard
  \/ Call_generate_task_type_pie_chart
  \/ Call_generate_multi_level_stats_chart
  \/ Call_generate_efficiency_trend_chart
  \/ Call_generate_weekday_distribution_chart
  \/ Call_generate_daily_xp_distribution_chart
  \/ Call_generate_comprehensive_dashboard
  \/ generate_all
  \/ GA_Parse
  \/ GA_Excel
  \/ GA_Json
  \/ GA_Load
  \/ GA_Interactive
  \/ GA_Static
  \/ GA_Cleanup
  \/ GA_Summary

Spec == Init /\ [][Next]_vars

(***************************************************************************)
(* The computations of a ChartGenerator on the dataset it loaded.  The     *)
(* datasets are lists of records as parse_course_data builds them, in any  *)
(* order, with days of March 2024.                                         *)
(***************************************************************************)
MaxActivities == 3
MaxDay == 6

\* a record as the regular branch of parse_course_data appends it
Activity(day, course, xp) ==
  [Date           |-> <<2024, 3, day>>,
   Course         |-> <<course>>,
   Task           |-> "Quiz",
   Description    |-> <<"math">>,
   XP_Earned      |-> xp,
   XP_Possible    |-> 15,
   XP_Detail      |-> [earned |-> str(xp), possible |-> str(15)],
   Daily_Total_XP |-> 0]

\* records of two courses on three days, one of them after a day without
\* records, with XP around the thresholds of the heat map
ActivityInputs ==
  {Activity(day, cx[1], cx[2]) :
     day \in {1, 2, 4},
     cx \in {<<"Algebra", 0>>, <<"Algebra", 15>>,
             <<"Geometry", 14>>, <<"Geometry", 15>>}}

RECURSIVE SeqsUpTo(_, _)
SeqsUpTo(S, n) ==
  IF n = 0 THEN {<<>>}
  ELSE LET shorter == SeqsUpTo(S, n - 1)
       IN  shorter \cup {Append(q, x) : q \in shorter, x \in S}

\* one record on each day of a set of days
OnDays(days) ==
  LET listed == SelectSeq([d \in 1..MaxDay |-> d], LAMBDA d : d \in days)
  IN  [i \in 1..Len(listed) |-> Activity(listed[i], "Algebra", 15)]

StreakDatasets == {OnDays(days) : days \in (SUBSET (1..MaxDay)) \ {{}}}

\* a first and a last record 12, 13 or 14 days apart and, or not, a record
\* on day 8
TrendDatasets ==
  {(<<Activity(1, "Algebra", a)>> \o mid)
     \o <<Activity(last, "Algebra", b)>> :
     a \in {0, 14, 15}, b \in {0, 14, 15},
     last \in (2 * TrendWindow - 1)..(2 * TrendWindow + 1),
     mid \in {<<>>, <<Activity(8, "Algebra", 15)>>}}

\* a record of a course and a task type, with the XP earned and possible
TaskActivity(day, course, task, xp, possible) ==
  [Activity(day, course, xp) EXCEPT
     !.Task = task, !.XP_Possible = possible,
     !.XP_Detail = [earned |-> str(xp), possible |-> str(possible)]]

MaxEfficiencyRecords == 2

\* records on two days, with nothing or something possible
EfficiencyDatasets ==
  SeqsUpTo({TaskActivity(day, "Algebra", "Quiz", xp[1], xp[2]) :
              day \in {1, 2},
              xp \in {<<0, 0>>, <<5, 0>>, <<5, 15>>, <<18, 15>>}},
           MaxEfficiencyRecords)

MaxTaskRecords == 3

\* records of a task type with a colour of its own and of two without, in
\* two courses on two days
TaskDatasets ==
  SeqsUpTo({TaskActivity(1, "Algebra", "Quiz", 15, 15),
            TaskActivity(1, "Geometry", "Exam", 14, 15),
            TaskActivity(1, "Algebra", "Drill", 15, 15),
            TaskActivity(2, "Algebra", "Exam", 15, 15),
            TaskActivity(2, "Geometry", "Drill", 0, 15),
            TaskActivity(2, "Geometry", "Quiz", 15, 15)},
           MaxTaskRecords)

MaxCourses == 20

\* one record of each of the courses from..to, in that order
CourseDatasets ==
  {[i \in 1..(to - from + 1) |-> Activity(1, CourseNames[from + i - 1], 15)] :
     from \in 1..MaxCourses, to \in 1..MaxCourses} \ {<<>>}

StatsDatasets ==
  SeqsUpTo(ActivityInputs, MaxActivities) \cup StreakDatasets
    \cup TrendDatasets

\* the datasets of the heat-map grid and of the breakdowns
BreakdownDatasets ==
  StreakDatasets \cup TrendDatasets \cup EfficiencyDatasets
    \cup TaskDatasets

\* a ChartGenerator has loaded the snapshot of a dataset
LoadedFrom(datasets) ==
  /\ InitScan
  /\ pdf_text = <<>>
  /\ pc = "analysis"
  /\ cmd = [name |-> "ChartGenerator", flags |-> {}, data |-> None]
  /\ files = {}
  /\ json_files = [p \in JsonPaths |-> AbsentSnapshot]
  /\ stdout = <<>>
  /\ stderr = <<>>
  /\ chart_gen \in {<<ChartGenerator(SnapshotPath, JsonSnapshot(data))>> :
                      data \in datasets}
  /\ outcome = NoOutcome
  /\ calls = 0
  /\ ga = NoLocals
  /\ body_error = NoError

InitStats == LoadedFrom(StatsDatasets)

\* the one computation of the behaviour returned value
Computed(op, value) ==
  /\ pc = "analysis"
  /\ outcome' = [op |-> op, raised |-> None, value |-> <<value>>,
                 stats |-> NoStatistics]
  /\ pc' = "computed"
  /\ UNCHANGED <<pdf_text, cmd, files, json_files, stdout, stderr,
                 chart_gen, calls, ga, body_error, scan_vars>>

Compute__calculate_cumulative_xp ==
  Computed("_calculate_cumulative_xp",
           _calculate_cumulative_xp(chart_gen[1].df))

Compute__calculate_longest_streak ==
  Computed("_calculate_longest_streak",
           _calculate_longest_streak(chart_gen[1].df))

Compute__calculate_current_streak ==
  Computed("_calculate_current_streak",
           _calculate_current_streak(chart_gen[1].df))

Compute__calculate_recent_trend ==
  Computed("_calculate_recent_trend",
           _calculate_recent_trend(_calculate_daily_xp(chart_gen[1].df)))

Compute__generate_course_colors ==
  Computed("_generate_course_colors",
           _generate_course_colors(chart_gen[1].df))

Compute__get_course_appearance_order ==
  Computed("_get_course_appearance_order",
           _get_course_appearance_order(chart_gen[1].df))

Compute__generate_interactive_cumulative_xp ==
  Computed("_generate_interactive_cumulative_xp",
           _generate_interactive_cumulative_xp(chart_gen[1].df))

Compute__generate_interactive_daily_xp ==
  Computed("_generate_interactive_daily_xp",
           _generate_interactive_daily_xp(chart_gen[1].df))

Compute__calculate_learning_heatmap_data ==
  Computed("_calculate_learning_heatmap_data",
           _calculate_learning_heatmap_data(chart_gen[1].df))

Compute__generate_learning_heatmap_html ==
  /\ chart_gen[1].df # <<>>
  /\ Computed("_generate_learning_heatmap_html",
              _generate_learning_heatmap_html(chart_gen[1].df))

Compute__calculate_efficiency_trend ==
  Computed("_calculate_efficiency_trend",
           _calculate_efficiency_trend(chart_gen[1].df))

Compute__calculate_monthly_weekly_daily_stats_by_task_type ==
  Computed("_calculate_monthly_weekly_daily_stats_by_task_type",
           _calculate_monthly_weekly_daily_stats_by_task_type(chart_gen[1].df))

\* the statistics the exporter computes from the records of the dataset
Compute__calculate_statistics ==
  Computed("_calculate_statistics", _calculate_statistics(chart_gen[1].data.activities))

Compute_get_xp_statistics ==
  /\ pc = "analysis"
  /\ outcome' = [op |-> "get_xp_statistics", raised |-> None, value |-> None,
                 stats |-> get_xp_statistics(chart_gen[1])]
  /\ pc' = "computed"
  /\ UNCHANGED <<pdf_text, cmd, files, json_files, stdout, stderr,
                 chart_gen, calls, ga, body_error, scan_vars>>

NextStats ==
  \/ Compute__calculate_cumulative_xp
  \/ Compute__calculate_longest_streak
  \/ Compute__calculate_current_streak
  \/ Compute__calculate_recent_trend
  \/ Compute__generate_course_colors
  \/ Compute__get_course_appearance_order
  \/ Compute__generate_interactive_cumulative_xp
  \/ Compute__generate_interactive_daily_xp
  \/ Compute__calculate_learning_heatmap_data
  \/ Compute_get_xp_statistics

SpecStats == InitStats /\ [][NextStats]_vars

(***************************************************************************)
(* The grid of the learning heat map, the efficiency trend and the         *)
(* breakdowns by task type, course and day.                                *)
(***************************************************************************)
InitBreakdowns == LoadedFrom(BreakdownDatasets)

NextBreakdowns ==
  \/ Compute__generate_learning_heatmap_html
  \/ Compute__calculate_efficiency_trend
  \/ Compute__calculate_monthly_weekly_daily_stats_by_task_type
  \/ Compute__calculate_statistics

SpecBreakdowns == InitBreakdowns /\ [][NextBreakdowns]_vars

(***************************************************************************)
(* The colours of the courses of a dataset with many courses.              *)
(***************************************************************************)
InitColors == LoadedFrom(CourseDatasets)

NextColors ==
  \/ Compute__generate_course_colors
  \/ Compute__get_course_appearance_order

SpecColors == InitColors /\ [][NextColors]_vars

(***************************************************************************)
(* Properties of the line scan.  What a line of the text means is stated   *)
(* here from the text alone: the date and the total a header states, the   *)
(* XP a placement fraction states.                                         *)
(***************************************************************************)
StatedDate(header) ==
  CASE header = "Monday, March 4th, 2024 (10 XP)" -> <<2024, 3, 4>>
    [] header = "Tuesday, Mar 5th, 2024 (20 XP)" -> <<2024, 3, 5>>

StatedTotal(header) ==
  CASE header = "Monday, March 4th, 2024 (10 XP)" -> 10
    [] header = "Tuesday, Mar 5th, 2024 (20 XP)" -> 20

StatedEarned(fraction) ==
  CASE fraction = "35/" -> 35
    [] fraction = "07/" -> 7

HasDateHeader(line) == \E i \in 1..Len(line) : line[i] \in DateHeaderTokens

BoilerplateLine(line) ==
  /\ line # <<>>
  /\ \/ line[1] = "Activity Log"
     \/ \E i \in 1..Len(line) : line[i] \in {"Student ID:", "Start Date:", "End Date:"}
     \/ line = <<"COURSE TASK DESCRIPTION XP EARNED">>

\* '<course> Placement <earned>/ XP', the course being one or more names
PlacementLine(line) ==
  /\ Len(line) >= 4
  /\ line[Len(line) - 2] = "Placement"
  /\ line[Len(line) - 1] \in PlacementFractionTokens
  /\ line[Len(line)] = "XP"
  /\ \A i \in 1..(Len(line) - 3) : line[i] \in WordTokens \cup TaskKeywords

\* the records the primary parser would hold after one more line
AfterLine(raw) == parse_line(Locals, raw).course_data

EmitsOne(raw) ==
  /\ Len(AfterLine(raw)) = Len(course_data) + 1
  /\ SubSeq(AfterLine(raw), 1, Len(course_data)) = course_data

Emitted(raw) == AfterLine(raw)[Len(AfterLine(raw))]

\* C1: no record is emitted for a task line that comes before the first
\* date header: while no header has been read the record list stays empty
\* whatever line comes next, and every record has a Date.
C1_NoRecordBeforeFirstDate ==
  /\ \A i \in 1..Len(course_data) : course_data[i].Date # None
  /\ latest_header = "" =>
       /\ course_data = <<>>
       /\ \A raw \in Lines : ~HasDateHeader(raw) => AfterLine(raw) = <<>>

\* a task line was read before any date header, and nothing was emitted
C1_Witness == early_task /\ latest_header = "" /\ course_data = <<>>

\* C2: a date-header line emits no record; any other line either emits
\* nothing or appends, after the records already emitted, one record with
\* the Date and the Daily Total XP of the latest date header read.
C2_RecordsCarryLatestHeader ==
  \A raw \in Lines :
    /\ HasDateHeader(raw) => AfterLine(raw) = course_data
    /\ \/ AfterLine(raw) = course_data
       \/ /\ EmitsOne(raw)
          /\ latest_header # ""
          /\ Emitted(raw).Date = StatedDate(latest_header)
          /\ Emitted(raw).Daily_Total_XP = StatedTotal(latest_header)

\* two records of two day blocks have been emitted, in the order of the text
C2_Witness ==
  /\ Len(course_data) = 2
  /\ course_data[1].Date = <<2024, 3, 5>> /\ course_data[1].Daily_Total_XP = 20
  /\ course_data[2].Date = <<2024, 3, 4>> /\ course_data[2].Daily_Total_XP = 10
  /\ latest_header = "Monday, March 4th, 2024 (10 XP)"

\* C3: a boilerplate line, whatever else it contains, emits no record and
\* leaves the current date and the current daily total unchanged.
C3_BoilerplateDiscarded ==
  \A raw \in Lines :
    BoilerplateLine(strip(raw)) => parse_line(Locals, raw) = Locals

\* C4: a placement line read while a date is active appends exactly one
\* record: Task "Placement", Description "Placement Test", XP Earned and
\* XP Possible both the stated XP, XP Detail that number followed by "/".
C4_PlacementRecord ==
  \A raw \in Lines :
    (PlacementLine(strip(raw)) /\ latest_header # "") =>
      LET earned == StatedEarned(strip(raw)[Len(strip(raw)) - 1])
      IN  /\ EmitsOne(raw)
          /\ Emitted(raw).Task = "Placement"
          /\ Emitted(raw).Description = <<"Placement Test">>
          /\ Emitted(raw).XP_Earned = earned
          /\ Emitted(raw).XP_Possible = earned
          /\ Emitted(raw).XP_Detail = [earned |-> str(earned), possible |-> <<>>]

\* the placement line "math Placement 07/ XP" has been read on an active date
C4_Witness ==
  /\ latest_header # ""
  /\ \E i \in 1..Len(course_data) :
       /\ course_data[i].Task = "Placement"
       /\ course_data[i].XP_Earned = 7
       /\ course_data[i].XP_Detail = [earned |-> <<7>>, possible |-> <<>>]

\* C5: on every text the backup parser holds the same records, in the same
\* order, as the primary parser.
C5_BackupSameRecords == course_data_backup = course_data

\* both parsers have emitted a regular and a placement record
C5_Witness ==
  /\ Len(course_data) = 2
  /\ {course_data[i].Task : i \in 1..2} = {"Quiz", "Placement"}
  /\ Len(course_data_backup) = 2

(***************************************************************************)
(* Properties of the export, chart and command-line layer.                 *)
(***************************************************************************)
\* <<year, month, day>> a is not after b in the calendar
NotAfter(a, b) ==
  \/ a[1] < b[1]
  \/ a[1] = b[1] /\ a[2] < b[2]
  \/ a[1] = b[1] /\ a[2] = b[2] /\ a[3] <= b[3]

SortedByDate(activities) ==
  \A i, j \in 1..Len(activities) :
    i < j => NotAfter(activities[i].Date, activities[j].Date)

\* the text holds no task line, so no parse of it holds a record
NoTaskLine(content) ==
  \A i \in 1..Len(content) : HasDateHeader(content[i]) \/ content[i] = <<>>

\* C6: in every JSON snapshot that export_to_json wrote, called directly or
\* by the export or the generate_all command, the activities are sorted by
\* Date ascending, whatever the order of the day blocks in the text.
C6_JsonActivitiesSorted ==
  \A p \in JsonPaths \cap files : SortedByDate(json_files[p].activities)

ExporterNames ==
  {"export_to_excel", "export_to_json", "export_to_excel_and_json"}

\* the record list of the direct call is empty: an empty list was passed, or
\* none was passed and the text holds no task
CalledOnEmptyList ==
  /\ cmd.name \in ExporterNames
  /\ \/ cmd.data = <<<<>>>>
     \/ cmd.data = None /\ NoTaskLine(pdf_text)

\* C7: export_to_excel, export_to_json and export_to_excel_and_json called
\* with an empty record list write no file and raise no error.
C7_EmptyExportWritesNothing ==
  /\ CalledOnEmptyList =>
       /\ pc = "done"
       /\ files = {}
       /\ outcome.raised = None
  /\ export_to_excel(pdf_text, World, ExcelPath, <<<<>>>>).files = files
  /\ export_to_json(pdf_text, World, JsonPath, <<<<>>>>).files = files
  /\ export_to_excel_and_json(pdf_text, World, ExcelPath, JsonPath,
                              <<<<>>>>).files = files

\* export_to_excel was called with an empty list on a PDF that has records
C7_Witness ==
  /\ pc = "done"
  /\ cmd.name = "export_to_excel"
  /\ cmd.data = <<<<>>>>
  /\ ~NoTaskLine(pdf_text)
  /\ stdout = <<"No course data found to export.">>
  /\ files = {}

NoActivities(document) ==
  ~document.has_activities \/ document.activities = <<>>

NoDataErrors ==
  {[type |-> "ValueError", message |-> "No data available for chart generation"],
   [type |-> "ValueError", message |-> "No data available for dashboard generation"]}

\* C8: on a snapshot whose activities list is empty or absent the
\* ChartGenerator is constructed, get_xp_statistics returns the empty
\* result, and each of the nine chart operations raises the 'no data
\* available' error and leaves the files as they were.
C8_EmptySnapshotCharts ==
  /\ pc = "charting" => chart_gen # None
  /\ (chart_gen # None /\ NoActivities(chart_gen[1].data)) =>
       /\ DOMAIN get_xp_statistics(chart_gen[1]) = {}
       /\ \A op \in ChartOps, interactive \in BOOLEAN, ok \in BOOLEAN :
            LET r == Invoke(op, chart_gen[1], files, None, interactive, ok)
            IN  /\ r.raised # None
                /\ r.raised[1] \in NoDataErrors
                /\ r.value = None
                /\ r.files = files
       /\ cmd.name = "ChartGenerator" =>
            /\ files = {}
            /\ outcome.op = "get_xp_statistics" =>
                 outcome.raised = None /\ DOMAIN outcome.stats = {}
            /\ outcome.op \in ChartOps =>
                 /\ outcome.raised # None
                 /\ outcome.raised[1] \in NoDataErrors
                 /\ outcome.value = None

\* on a snapshot without the activities key, two calls were made and the
\* last, the comprehensive dashboard, raised
C8_Witness ==
  /\ pc = "charting"
  /\ chart_gen # None
  /\ ~chart_gen[1].data.has_activities
  /\ calls = 2
  /\ outcome.op = "generate_comprehensive_dashboard"
  /\ outcome.raised # None
  /\ files = {}

\* the statistics the stats command reads
StatsKeysRead ==
  {"total_xp", "average_daily_xp", "max_daily_xp", "min_daily_xp",
   "active_days", "total_days", "date_range", "recent_trend"}

\* C9: on a snapshot with at least one activity the stats command ends
\* without an error line, and every statistic it reads is one that
\* get_xp_statistics returns.
C9_StatsPrintsWithoutError ==
  (/\ cmd.name = "stats"
   /\ pc = "done"
   /\ ~NoActivities(chart_gen[1].data)) =>
     /\ stderr = <<>>
     /\ StatsKeysRead \subseteq DOMAIN get_xp_statistics(chart_gen[1])

\* C10: when the parse of generate_all yields no record the command is over,
\* the error stream holds the failure, and there is no Excel file, no JSON
\* file, no temporary JSON and no chart; this for every flag combination
\* that requests data or charts, none of which gets past the parse without
\* a record.
C10_GenerateAllAbortsOnNoRecords ==
  cmd.name = "generate_all" =>
    /\ (ga.parsed /\ (ga.data = <<>> \/ NoTaskLine(pdf_text))) =>
         /\ pc = "done"
         /\ stderr = <<<<"No course data found in PDF. Cannot proceed.">>>>
         /\ files = {}
         /\ chart_gen = None
    /\ ("--charts-only" \notin cmd.flags \/ "--data-only" \notin cmd.flags) =>
         /\ pc \notin {"parse", "done"} => ga.parsed /\ ga.data # <<>>
         /\ (pc = "done" /\ ~ga.parsed) => files = {}

\* generate_all --charts-only --static-only on a text of date headers only
C10_Witness ==
  /\ cmd.name = "generate_all"
  /\ cmd.flags = {"--charts-only", "--static-only"}
  /\ pdf_text # <<>>
  /\ ga.parsed
  /\ ga.data = <<>>
  /\ pc = "done"
  /\ stderr # <<>>

(***************************************************************************)
(* Properties of the command boundary.                                     *)
(***************************************************************************)
CliCommands == {"text", "tables", "info", "search", "positions", "export",
                "chart", "generate_all", "stats"}

ErrorLine(exc) == <<"Error:", exc.message>>
TraceLine(exc) == <<"Debug info:", exc.type>>

OnStderr(line) == \E i \in 1..Len(stderr) : stderr[i] = line

\* C11: an exception raised inside the body of a command (text, tables, info,
\* search, positions, export, chart, generate_all, stats) does not leave the
\* command: the command ends, the line "Error: <message>" is on the standard
\* error, and the diagnostic trace follows it for generate_all and for no
\* other command.
C11_ErrorsCaughtAtCommand ==
  (cmd.name \in CliCommands /\ body_error.raised # None) =>
    /\ ~body_error.propagated
    /\ pc = "done"
    /\ OnStderr(ErrorLine(body_error.raised[1]))
    /\ OnStderr(TraceLine(body_error.raised[1])) <=> (cmd.name = "generate_all")

\* the chart command on a snapshot without records: the first chart call
\* raised, the command reported it and ended
C11_Witness ==
  /\ cmd.name = "chart"
  /\ "--dashboard" \in cmd.flags
  /\ body_error.raised = <<ValueError("No data available for dashboard generation")>>
  /\ stderr = <<<<"Error:", "No data available for dashboard generation">>>>
  /\ pc = "done"

(***************************************************************************)
(* Properties of the computations of a ChartGenerator.                     *)
(***************************************************************************)
\* the records of the snapshot the generator loaded, and the result computed
Loaded == chart_gen[1].data.activities
Result == outcome.value[1]

\* the same records in the order perm lists them
Permuted(data, perm) == [i \in 1..Len(data) |-> data[perm[i]]]

\* C12: the cumulative-XP series of _calculate_cumulative_xp has one row per
\* date in ascending date order, its cumulative_xp never decreases (the XP of
\* the records is not negative), it is the same series for every permutation
\* of the records of the snapshot, and its last value is the sum of the XP
\* Earned of all records.
C12_CumulativeSeries ==
  outcome.op = "_calculate_cumulative_xp" =>
    /\ \A i, j \in 1..Len(Result) : i < j =>
         /\ Result[i].date < Result[j].date
         /\ Result[i].cumulative_xp <= Result[j].cumulative_xp
    /\ \A perm \in Permutations(1..Len(Loaded)) :
         _calculate_cumulative_xp(
           _process_data(JsonSnapshot(Permuted(Loaded, perm)))) = Result
    /\ (Result = <<>>) <=> (Loaded = <<>>)
    /\ Loaded # <<>> =>
         Result[Len(Result)].cumulative_xp =
           SumSeq([i \in 1..Len(Loaded) |-> Loaded[i].XP_Earned])

\* the series of a snapshot that lists a later day first: two rows, the last
\* one the sum of the XP of both days
C12_Witness ==
  /\ outcome.op = "_calculate_cumulative_xp"
  /\ Len(Loaded) >= 2
  /\ toordinal(Loaded[1].Date) > toordinal(Loaded[2].Date)
  /\ Len(Result) >= 2
  /\ Result[1].cumulative_xp > 0
  /\ Result[Len(Result)].cumulative_xp > Result[1].cumulative_xp

\* the calendar days (as day numbers) that have a record in the snapshot
ActiveDays == {toordinal(Loaded[i].Date) : i \in 1..Len(Loaded)}

\* the days from..to all have a record and the days next to them have none
MaximalRun(from, to) ==
  /\ from <= to
  /\ \A day \in from..to : day \in ActiveDays
  /\ (from - 1) \notin ActiveDays
  /\ (to + 1) \notin ActiveDays

MaximalRuns == {run \in ActiveDays \X ActiveDays : MaximalRun(run[1], run[2])}

\* the March 2024 days of the records
MarchDays == {Loaded[i].Date[3] : i \in 1..Len(Loaded)}

\* C13: the longest streak is the length of the longest maximal run of
\* consecutive calendar days with at least one record; start_date and
\* end_date are the first and the last day of such a run, of the earliest
\* one when several runs have that length.
C13_LongestStreak ==
  (outcome.op = "_calculate_longest_streak" /\ Loaded # <<>>) =>
    \E run \in MaximalRuns :
      /\ Result.length = run[2] - run[1] + 1
      /\ toordinal(Result.start_date) = run[1]
      /\ toordinal(Result.end_date) = run[2]
      /\ \A other \in MaximalRuns :
           /\ other[2] - other[1] <= run[2] - run[1]
           /\ other[2] - other[1] = run[2] - run[1] => run[1] <= other[1]

\* records on March 1, 2, 4 and 5: two runs of two days, the first is reported
C13_Witness ==
  /\ outcome.op = "_calculate_longest_streak"
  /\ MarchDays = {1, 2, 4, 5}
  /\ Result = [length |-> 2, start_date |-> <<2024, 3, 1>>,
               end_date |-> <<2024, 3, 2>>]

\* C14: the current streak ends on the latest day that has a record and
\* counts the days with a record backwards from it, day by day, up to the
\* first day without one; nothing but the records enters it.  With records
\* on days 1, 2, 3 and 6 it is 1.
C14_CurrentStreak ==
  (outcome.op = "_calculate_current_streak" /\ Loaded # <<>>) =>
    LET last == Max(ActiveDays)
    IN  /\ toordinal(Result.end_date) = last
        /\ Result.length >= 1
        /\ \A k \in 0..(Result.length - 1) : (last - k) \in ActiveDays
        /\ (last - Result.length) \notin ActiveDays
        /\ toordinal(Result.start_date) = last - Result.length + 1
        /\ MarchDays = {1, 2, 3, 6} => Result.length = 1

\* records on March 1, 2, 3 and 6: the streak is the 6th alone
C14_Witness ==
  /\ outcome.op = "_calculate_current_streak"
  /\ MarchDays = {1, 2, 3, 6}
  /\ Result = [length |-> 1, start_date |-> <<2024, 3, 6>>,
               end_date |-> <<2024, 3, 6>>]

\* the XP earned on a calendar day, and the number of calendar days from the
\* first day with a record to the last
EarnedOn(day) ==
  SumSeq([i \in 1..Len(Loaded) |->
            IF toordinal(Loaded[i].Date) = day THEN Loaded[i].XP_Earned ELSE 0])

DailyEntries ==
  IF Loaded = <<>> THEN 0 ELSE Max(ActiveDays) - Min(ActiveDays) + 1

\* the XP of the entries from..to of the daily series, counted from its end
EarnedInLast(from, to) ==
  SumSeq([k \in 1..(from - to + 1) |-> EarnedOn(Max(ActiveDays) - from + k - 1)])

\* C15: with fewer than 14 daily entries the recent trend is
\* 'insufficient_data' with change_percent 0; with 14 or more the direction
\* is 'increasing', 'decreasing' or 'stable' as the mean of the last 7 entries
\* is above, below or equal to the mean of the 7 entries before them.
C15_RecentTrend ==
  outcome.op = "_calculate_recent_trend" =>
    IF DailyEntries < 14
    THEN /\ Result.direction = "insufficient_data"
         /\ Result.change_percent.num = 0
    ELSE LET recent == EarnedInLast(6, 0)
             before == EarnedInLast(13, 7)
         IN  Result.direction = IF recent > before THEN "increasing"
                                ELSE IF recent < before THEN "decreasing"
                                ELSE "stable"

\* 14 daily entries, 15 XP on the first day and 14 XP on the last
C15_Witness ==
  /\ outcome.op = "_calculate_recent_trend"
  /\ DailyEntries = 14
  /\ EarnedOn(Min(ActiveDays)) = 15
  /\ EarnedInLast(6, 0) = 14
  /\ Result.direction = "decreasing"

\* the date-sorted dataset of the generator, the row at which a course first
\* appears in it, and the place of a course among the courses by that row
Dataset == chart_gen[1].df

FirstRow(course) == Min({i \in 1..Len(Dataset) : Dataset[i].Course = course})

DatasetCourses == {Dataset[i].Course : i \in 1..Len(Dataset)}

Place(course) ==
  Cardinality({c \in DatasetCourses : FirstRow(c) <= FirstRow(course)})

\* C16: the colours of the courses follow the order in which the courses
\* first appear in the date-sorted dataset: the k-th course to appear has the
\* k-th colour of the 40 colours of the five palettes put end to end, and
\* _get_course_appearance_order lists the courses in that same order.
C16_CourseColors ==
  /\ Len(all_colors) = 40
  /\ outcome.op = "_generate_course_colors" =>
       /\ DOMAIN Result = DatasetCourses
       /\ \A course \in DatasetCourses :
            Result[course] = all_colors[Place(course)]
  /\ outcome.op = "_get_course_appearance_order" =>
       /\ Len(Result) = Cardinality(DatasetCourses)
       /\ \A k \in 1..Len(Result) :
            /\ Result[k] \in DatasetCourses
            /\ Place(Result[k]) = k
            /\ _generate_course_colors(Dataset)[Result[k]] = all_colors[k]

\* Geometry appears before Algebra: it has the first colour of the first
\* palette and Algebra the second
C16_Witness ==
  /\ outcome.op = "_generate_course_colors"
  /\ DatasetCourses = {<<"Algebra">>, <<"Geometry">>}
  /\ FirstRow(<<"Geometry">>) < FirstRow(<<"Algebra">>)
  /\ Result[<<"Geometry">>] = "#A23B72"
  /\ Result[<<"Algebra">>] = "#F18F01"

\* the dominant-course series a segment computation splits
SeriesOf(op) ==
  IF op = "_generate_interactive_cumulative_xp"
  THEN _calculate_cumulative_xp_with_dominant_course(Dataset)
  ELSE _calculate_daily_xp_with_dominant_course(Dataset)

\* the rows of the segments put end to end
RECURSIVE Joined(_)
Joined(segments) ==
  IF segments = <<>> THEN <<>>
  ELSE Joined(SubSeq(segments, 1, Len(segments) - 1))
         \o segments[Len(segments)].segment

\* the places of the series at which the dominant course changes
Changes(series) ==
  {i \in 1..(Len(series) - 1) :
     series[i].dominant_course # series[i + 1].dominant_course}

\* C17: the segments of the dominant-course series of a day chart are its
\* maximal runs of one dominant course: put end to end they are the series,
\* none is empty, each holds rows of its own course only, two segments next
\* to each other differ in course, and there is one segment more than there
\* are changes of the dominant course.
C17_Segments ==
  outcome.op \in {"_generate_interactive_cumulative_xp",
                  "_generate_interactive_daily_xp"} =>
    LET series == SeriesOf(outcome.op)
    IN  /\ Joined(Result) = series
        /\ \A k \in 1..Len(Result) :
             /\ Result[k].segment # <<>>
             /\ \A i \in 1..Len(Result[k].segment) :
                  Result[k].segment[i].dominant_course = Result[k].course
        /\ \A k \in 1..(Len(Result) - 1) : Result[k].course # Result[k + 1].course
        /\ series # <<>> => Len(Result) = Cardinality(Changes(series)) + 1
        /\ series = <<>> => Result = <<>>

\* Algebra on the 1st, Geometry on the 2nd, nothing on the 3rd, Algebra on
\* the 4th: four segments of the daily series
C17_Witness ==
  /\ outcome.op = "_generate_interactive_daily_xp"
  /\ Len(Result) = 4
  /\ Result[1].course = <<"Algebra">>
  /\ Result[2].course = <<"Geometry">>
  /\ Result[3].course = Unknown
  /\ Result[4].course = <<"Algebra">>

\* the level the thresholds 15 and 30 give to the XP of a day
StatedLevel(xp) ==
  CASE xp = 0 -> 0
    [] 0 < xp /\ xp < 15 -> 1
    [] 15 <= xp /\ xp < 30 -> 2
    [] xp >= 30 -> 3

\* C18: every day of the heat map has the XP earned on it and colour level 0
\* when that is 0, 1 when it is above 0 and below 15, 2 from 15 and below 30,
\* 3 from 30 on; the levels 0 to 3 have the colours #ebedf0, #9be9a8,
\* #40c463 and #30a14e.
C18_HeatmapLevels ==
  (outcome.op = "_calculate_learning_heatmap_data" /\ Loaded # <<>>) =>
    /\ \A k \in 1..Len(Result.data) :
         /\ Result.data[k].daily_xp = EarnedOn(Result.data[k].date)
         /\ Result.data[k].color_level = StatedLevel(Result.data[k].daily_xp)
    /\ Result.color_levels["0"] = "#ebedf0"
    /\ Result.color_levels["1"] = "#9be9a8"
    /\ Result.color_levels["2"] = "#40c463"
    /\ Result.color_levels["3"] = "#30a14e"

\* a day with exactly 15 XP at level 2 and a day with exactly 30 XP at level 3
C18_Witness ==
  /\ outcome.op = "_calculate_learning_heatmap_data"
  /\ Loaded # <<>>
  /\ \E k \in 1..Len(Result.data) :
       Result.data[k].daily_xp = 15 /\ Result.data[k].color_level = 2
  /\ \E k \in 1..Len(Result.data) :
       Result.data[k].daily_xp = 30 /\ Result.data[k].color_level = 3

\* C19: when the records parsed from a PDF were exported to a JSON snapshot
\* and a ChartGenerator loaded that snapshot, the total_xp of
\* get_xp_statistics is the sum of the XP Earned of the parsed records and is
\* the total_xp of the statistics stored in the snapshot.
C19_TotalXpEndToEnd ==
  (/\ outcome.op = "get_xp_statistics"
   /\ chart_gen # None
   /\ chart_gen[1].data.has_activities
   /\ chart_gen[1].data.activities # <<>>) =>
    LET parsed == parse_course_data(pdf_text)
    IN  /\ chart_gen[1].data.activities = parsed
        /\ outcome.stats.total_xp =
             SumSeq([i \in 1..Len(parsed) |-> parsed[i].XP_Earned])
        /\ outcome.stats.total_xp = chart_gen[1].data.statistics.total_xp

\* two records of 18 XP on two days, parsed, exported and loaded: 36
C19_Witness ==
  /\ outcome.op = "get_xp_statistics"
  /\ chart_gen # None
  /\ Len(chart_gen[1].data.activities) = 2
  /\ chart_gen[1].data.activities[1].Date # chart_gen[1].data.activities[2].Date
  /\ chart_gen[1].data.statistics.total_xp = 36
  /\ outcome.stats.total_xp = 36

\* C20: the active_days of get_xp_statistics is the number of calendar dates
\* that have at least one record, whatever XP the records earned.
C20_ActiveDaysAreRecordDays ==
  (outcome.op = "get_xp_statistics" /\ Loaded # <<>>) =>
    outcome.stats.active_days = Cardinality(ActiveDays)

\* the steps of generate_all in the order of the command body
GASteps ==
  <<"parse", "excel", "json", "load", "interactive", "static", "cleanup",
    "summary", "done">>

StepRank(p) == CHOOSE k \in 1..Len(GASteps) : GASteps[k] = p

\* the manifest of a run that completes every step its flags ask for
FullManifest(flags) ==
  (IF "--charts-only" \in flags THEN <<>> ELSE <<"Excel", "JSON">>)
  \o (IF "--data-only" \in flags \/ "--static-only" \in flags THEN <<>>
      ELSE <<"Interactive Dashboard", "Interactive Cumulative XP",
             "Interactive Daily XP", "Interactive Task Type",
             "Interactive Multi-level Stats", "Interactive Efficiency Trend",
             "Interactive Weekday Distribution",
             "Interactive Daily XP Distribution">>)
  \o (IF "--data-only" \in flags \/ "--interactive-only" \in flags THEN <<>>
      ELSE <<"Static Cumulative XP", "Static Daily XP", "Static Task Type",
             "Static Multi-level Stats", "Static Efficiency Trend",
             "Static Weekday Distribution", "Static Daily XP Distribution">>)

\* the labels of the files generated so far, the temporary JSON left out
Manifest ==
  LET kept == SelectSeq(ga.generated_files,
                        LAMBDA f : f[1] # "Temporary JSON")
  IN  [i \in 1..Len(kept) |-> kept[i][1]]

ManifestFiles ==
  {ga.generated_files[i][2] : i \in 1..Len(ga.generated_files)}

\* at every moment the files generated are those of the first steps of the
\* fixed order, and each of them is in place
GA_InOrder ==
  cmd.name = "generate_all" =>
    /\ Len(Manifest) <= Len(FullManifest(cmd.flags))
    /\ Manifest = SubSeq(FullManifest(cmd.flags), 1, Len(Manifest))
    /\ ManifestFiles \subseteq files

\* a step of generate_all never goes back to an earlier stage, removes no
\* file except in the cleanup, and a failing step ends the command
GA_StepForward ==
  cmd.name = "generate_all" =>
    /\ StepRank(pc') >= StepRank(pc)
    /\ pc # "cleanup" => files \subseteq files'
    /\ (body_error.raised = None /\ body_error'.raised # None) =>
         /\ pc' = "done"
         /\ files \subseteq files'
         /\ ga' = ga
    /\ pc = "done" => UNCHANGED vars

\* C21: generate_all runs its steps in a fixed order (parse; Excel, JSON;
\* the interactive charts, dashboard first; the static charts); when a step
\* fails the files of the earlier steps are still in place and no later step
\* runs.
C21_GenerateAllStepOrder == [] GA_InOrder /\ [][GA_StepForward]_vars

\* a static chart failed after the data files, the eight interactive charts
\* and one static chart were written
C21_Witness ==
  /\ cmd.name = "generate_all"
  /\ pc = "done"
  /\ body_error.raised # None
  /\ Len(ga.generated_files) = 11
  /\ ga.generated_files[3][1] = "Interactive Dashboard"
  /\ ManifestFiles \subseteq files
  /\ Cardinality(files) = 11

\* a ChartGenerator is at work: in a session of direct calls, or in the
\* chart steps of generate_all
Charting == pc \in {"charting", "interactive", "static"}

\* C22: a chart operation or a statistics query changes neither the loaded
\* document and dataset nor any JSON snapshot, and writes no file at the path
\* the snapshot was read from; the statistics are those computed from the
\* document as it was loaded.
C22_ChartingKeepsSnapshot ==
  [][Charting =>
       /\ chart_gen' = chart_gen
       /\ json_files' = json_files
       /\ chart_gen[1].json_path \notin (files' \ files)
       /\ (chart_gen[1].json_path \in files =>
             chart_gen[1].json_path \in files')
       /\ chart_gen[1] =
            ChartGenerator(chart_gen[1].json_path, chart_gen[1].data)
       /\ (outcome'.op = "get_xp_statistics" =>
             outcome'.stats =
               get_xp_statistics(ChartGenerator(chart_gen[1].json_path,
                                                chart_gen[1].data)))
       /\ (outcome.op = "get_xp_statistics"
             /\ outcome'.op = "get_xp_statistics" =>
             outcome'.stats = outcome.stats)]_vars

\* statistics queried after a chart was written from a snapshot with records
C22_Witness ==
  /\ pc = "charting"
  /\ calls = 2
  /\ chart_gen[1].df # <<>>
  /\ files # {}
  /\ outcome.op = "get_xp_statistics"
  /\ outcome.stats # NoStatistics

\* the dates the grid gives a cell to
GridDates ==
  {Result.week_column_map[cell] : cell \in DOMAIN Result.week_column_map}

\* C23: the grid of the heat map built from the 365 days ending at the
\* latest date begins on a Sunday, ends on a Saturday and has exactly 53
\* week columns of 371 consecutive dates: the cap of 53 columns drops no
\* date and the latest date is in the last column.
C23_HeatmapGrid ==
  outcome.op = "_generate_learning_heatmap_html" =>
    LET latest == Max(ActiveDays)
    IN  /\ weekday(Result.aligned_start_date) = 6
        /\ weekday(Result.aligned_end_date) = 5
        /\ Result.aligned_end_date - Result.aligned_start_date + 1 = 371
        /\ Result.aligned_start_date <= latest - 364
        /\ Result.week_col = 53
        /\ GridDates = Result.aligned_start_date..Result.aligned_end_date
        /\ Cardinality(DOMAIN Result.week_column_map) = 371
        /\ \A cell \in DOMAIN Result.week_column_map :
             /\ cell[1] \in 0..52
             /\ weekday(Result.week_column_map[cell]) = cell[2]
             /\ Result.week_column_map[cell]
                  = Result.aligned_start_date + 7 * cell[1]
                      + ((cell[2] + 1) % 7)
        /\ \E wd \in 0..6 :
             /\ <<52, wd>> \in DOMAIN Result.week_column_map
             /\ Result.week_column_map[<<52, wd>>] = latest

\* the latest date is a Thursday, in the fifth row of the last column
C23_Witness ==
  /\ outcome.op = "_generate_learning_heatmap_html"
  /\ weekday(Max(ActiveDays)) = 3
  /\ Result.week_col = 53
  /\ <<52, 3>> \in DOMAIN Result.week_column_map
  /\ Result.week_column_map[<<52, 3>>] = Max(ActiveDays)

\* C24: in the efficiency trend the Efficiency Rate of a day is 0 whenever
\* the XP possible of the day sums to 0, whatever XP was earned on the day.
C24_EfficiencyZeroWithoutPossible ==
  outcome.op = "_calculate_efficiency_trend" =>
    \A k \in 1..Len(Result) :
      Result[k].Possible_XP = 0 => Result[k].Efficiency_Rate = Tenths(0)

\* the task types without a colour of their own, in the order the dataset
\* first lists them
UnknownTaskTypes ==
  SelectSeq(unique([i \in 1..Len(Dataset) |-> Dataset[i].Task]),
            LAMBDA t : t \notin DOMAIN colors)

\* the entries of a breakdown give the k-th unknown task type the k-th gray
FallbackInOrder(entries) ==
  \A e \in {entries[i] : i \in 1..Len(entries)} :
    \A k \in 1..Len(UnknownTaskTypes) :
      e.task_type = UnknownTaskTypes[k] => e.color = default_colors[k]

\* C25: in the statistics by task type, the k-th distinct task type outside
\* the table of six colours gets the k-th fallback colour, in the daily, the
\* weekly and the monthly breakdown alike.
C25_FallbackColorsInOrder ==
  (outcome.op = "_calculate_monthly_weekly_daily_stats_by_task_type"
     /\ Dataset # <<>>) =>
    /\ FallbackInOrder(Result.daily)
    /\ FallbackInOrder(Result.weekly)
    /\ FallbackInOrder(Result.monthly)

\* the sum of a field over the entries of a dict
RECURSIVE SumOver(_, _)
SumOver(dict, field) ==
  IF DOMAIN dict = {} THEN 0
  ELSE LET key == CHOOSE k \in DOMAIN dict : TRUE
       IN  dict[key][field]
             + SumOver([k \in DOMAIN dict \ {key} |-> dict[k]], field)

RECURSIVE SumValues(_)
SumValues(dict) ==
  IF DOMAIN dict = {} THEN 0
  ELSE LET key == CHOOSE k \in DOMAIN dict : TRUE
       IN  dict[key] + SumValues([k \in DOMAIN dict \ {key} |-> dict[k]])

\* C26: for a non-empty record list the aggregates of _calculate_statistics
\* agree: the counts of the course, the task type and the daily breakdown
\* each sum to the number of records, their XP each sum to total_xp, the
\* tasks_by_type counts of a course sum to the count of the course, and the
\* courses of a day are listed once each.
C26_StatisticsConsistent ==
  (outcome.op = "_calculate_statistics" /\ Loaded # <<>>) =>
    /\ SumOver(Result.course_breakdown, "count") = Len(Loaded)
    /\ SumOver(Result.task_type_breakdown, "count") = Len(Loaded)
    /\ SumOver(Result.daily_breakdown, "task_count") = Len(Loaded)
    /\ SumOver(Result.course_breakdown, "xp") = Result.total_xp
    /\ SumOver(Result.task_type_breakdown, "xp") = Result.total_xp
    /\ SumOver(Result.daily_breakdown, "total_xp") = Result.total_xp
    /\ \A c \in DOMAIN Result.course_breakdown :
         SumValues(Result.course_breakdown[c].tasks_by_type)
           = Result.course_breakdown[c].count
    /\ \A d \in DOMAIN Result.daily_breakdown :
         LET listed == Result.daily_breakdown[d].courses
         IN  /\ \A i, j \in 1..Len(listed) : listed[i] = listed[j] => i = j
             /\ {listed[k] : k \in 1..Len(listed)}
                  = {Loaded[i].Course : i \in {n \in 1..Len(Loaded) :
                                                 Loaded[n].Date = d}}

\* three records of one day, two of them of one course, in two task types
C26_Witness ==
  /\ outcome.op = "_calculate_statistics"
  /\ Len(Loaded) = 3
  /\ Cardinality(DOMAIN Result.daily_breakdown) = 1
  /\ Cardinality(DOMAIN Result.course_breakdown) = 2
  /\ Cardinality(DOMAIN Result.task_type_breakdown) = 2
  /\ \E d \in DOMAIN Result.daily_breakdown :
       Len(Result.daily_breakdown[d].courses) = 2

\* C27: for a dataset of at most 40 courses _generate_course_colors gives
\* different courses different colours.
C27_DistinctCourseColors ==
  (/\ outcome.op = "_generate_course_colors"
   /\ Dataset # <<>>
   /\ Cardinality(DatasetCourses) <= 40) =>
    \A c1, c2 \in DOMAIN Result : c1 # c2 => Result[c1] # Result[c2]

\* C28: for a non-empty dataset the statistics satisfy
\* 1 <= current_streak.length <= longest_streak.length <= active_days
\* <= total_days, and total_days is the number of calendar days from the
\* first to the last date.
C28_StreaksWithinActiveDays ==
  (outcome.op = "get_xp_statistics" /\ Loaded # <<>>) =>
    /\ 1 <= outcome.stats.current_streak.length
    /\ outcome.stats.current_streak.length
         <= outcome.stats.longest_streak.length
    /\ outcome.stats.longest_streak.length <= outcome.stats.active_days
    /\ outcome.stats.active_days <= outcome.stats.total_days
    /\ outcome.stats.total_days = Max(ActiveDays) - Min(ActiveDays) + 1

Printed(line) == \E i \in 1..Len(stdout) : stdout[i] = line

\* C29: the export command reports 'Successfully exported N records' only
\* after it has written an Excel or a JSON file, for every combination of
\* --json-only and --excel-only and every parse result.
C29_ExportSuccessMeansFile ==
  (cmd.name = "export" /\ Printed("Successfully exported")) =>
    (OutputPath \in files \/ with_suffix(OutputPath, "json") \in files)

\* C30: when a run of generate_all with --charts-only has ended, with its
\* chart steps done or one of them failed, the temporary snapshot it wrote
\* is no longer in the output directory, and the manifest of a completed run
\* has no 'Temporary JSON' entry.
C30_TemporaryJsonRemoved ==
  (cmd.name = "generate_all" /\ "--charts-only" \in cmd.flags /\ pc = "done")
    => /\ TempJsonPath \notin files
       /\ body_error.raised = None =>
            \A i \in 1..Len(ga.generated_files) :
              ga.generated_files[i][1] # "Temporary JSON"

=============================================================================
